--------------------------- MODULE LifecycleProofs ---------------------------
(***************************************************************************)
(* Proofs about module Lifecycle, for any keys, servers, restarts and      *)
(* edits of config.json.  At most one call of bootReady is under way; what runs is     *)
(* what that call started, and every module-level handle that is set is    *)
(* its own, so that unwinding stops all of it and nothing else.            *)
(***************************************************************************)
EXTENDS Lifecycle, SequenceTheorems, FiniteSetTheorems, TLAPS

\* One setup form at a time: what two of them do to each other is in the README.
OnePost == \A p, q \in Posts : p = q

Working == {"wallet", "balance", "swaps", "fees", "nostr", "proof", "funds", "board", "fetch"}

\* What a bring-up that waits at pc has started, and what it may have.
Upto(pc) ==
  {k \in Kinds : \/ k = "wallet" /\ pc # "wallet"
                 \/ k = "swaps" /\ pc \notin {"wallet", "balance", "swaps"}
                 \/ k \in Starts["nostr"] /\ pc \in {"proof", "funds", "board", "fetch"}
                 \/ k = "proof" /\ pc \in {"funds", "board", "fetch"}}
AtMost(pc) == Upto(pc) \cup (IF pc \in {"board", "fetch"} THEN {"funds"} ELSE {})

AllOff == \A c \in Callers : boot[c].pc = "off"
Nobody == \A k \in HandleKinds : hold[k] = None

\* One call of bootReady at a time, and none while a session serves.
OneCaller ==
  /\ \A c, d \in Callers : boot[c].pc # "off" /\ boot[d].pc # "off" => c = d
  /\ mode = "ready" => AllOff
  /\ \A p \in Posts : boot[p].pc # "off" => mode = "setup"
  /\ timer => mode = "degraded" /\ boot[Boot].pc = "off"
  /\ boot[Boot].pc # "validate"

\* What lives is what the one bring-up under way started, and the handles know it.
Owned ==
  /\ \A c \in Callers : boot[c].pc \in Working =>
        /\ Upto(boot[c].pc) \X {c} \subseteq live /\ live \subseteq AtMost(boot[c].pc) \X {c}
        /\ \A k \in HandleKinds : hold[k] = IF <<k, c>> \in live THEN c ELSE None
  /\ \A c \in Callers : boot[c].pc = "unwind" => live \subseteq UndoKinds \X {c} /\ Nobody
  /\ (\A c \in Callers : boot[c].pc \in {"off", "validate"}) /\ mode # "ready" => live = {} /\ Nobody
  /\ mode = "ready" => /\ session \in Callers /\ live \subseteq Kinds \X {session}
                       /\ (Kinds \ {"funds"}) \X {session} \subseteq live

\* Whose key.
Chosen ==
  /\ Len(accounts) <= 1
  /\ accounts = <<>> => mode = "setup"
  /\ mode = "setup" /\ (\A c \in Callers : ~Busy(c)) => accounts = <<>>
  /\ \A c \in Callers : Busy(c) =>
        /\ accounts # <<>> /\ boot[c].key = loadAccount
        /\ primary = loadAccount /\ engine # None /\ notifier # None
  /\ \A p \in Posts : boot[p].pc = "validate" => accounts = <<>> /\ boot[p].key \in Keys /\ boot[p].srv \in Servers
  /\ \A p \in Posts : Busy(p) => accounts[1].by = p /\ \A k \in Keys : home[k] = None
  /\ mode = "degraded" => boot[Boot].key = loadAccount
  /\ mode = "ready" => primary = loadAccount /\ engine # None /\ notifier # None
  /\ \A k \in Keys : home[k] # None => accounts # <<>> /\ k = loadAccount

\* Whose servers.  An account without a row is an old one that config.json pins, unless
\* it was unpinned under a running process; a bring-up that is not pinned works on the
\* row, and the wallet was first ready on it.
Served ==
  /\ server # None => accounts # <<>>
  /\ accounts # <<>> /\ server = None => accounts[1].by = Boot
  /\ accounts # <<>> /\ server = None /\ override = None => slipped
  /\ \A c \in Callers : Busy(c) =>
        /\ boot[c].srv \in Servers /\ boot[c].from \in {"config", "row", "defaults"}
        /\ boot[c].from = "row" => boot[c].srv = server
        /\ boot[c].from = "defaults" => slipped
  /\ \A k \in Keys : home[k] # None => home[k] = server \/ slipped

\* One pass at a time, one more remembered only while one runs, and every poke that no
\* pass has followed yet is remembered.
Turns ==
  \A c \in Callers : /\ rec[c].running <= 1 /\ (rec[c].queued => rec[c].running = 1)
                     /\ c \in news => rec[c].queued

LifeInv == TypeOK /\ OneCaller /\ Owned /\ Chosen /\ Served /\ Turns

-----------------------------------------------------------------------------
(* bootReady's awaits and what each one starts. *)

LEMMA AwaitsAre ==
  /\ 1..Len(Awaits) = {1, 2, 3, 4, 5, 6, 7, 8, 9} /\ 1..(Len(Awaits) - 1) = {1, 2, 3, 4, 5, 6, 7, 8}
  /\ {Awaits[i] : i \in 1..Len(Awaits)} = Working
  /\ {Awaits[i] : i \in 1..(Len(Awaits) - 1)} = Working \ {"fetch"}
<1>1. Len(Awaits) = 9
  BY DEF Awaits
<1>2. 1..Len(Awaits) = {1, 2, 3, 4, 5, 6, 7, 8, 9} /\ 1..(Len(Awaits) - 1) = {1, 2, 3, 4, 5, 6, 7, 8}
  BY <1>1
<1>3. {Awaits[i] : i \in {1, 2, 3, 4, 5, 6, 7, 8, 9}} = Working
  BY DEF Awaits, Working
<1>4. {Awaits[i] : i \in {1, 2, 3, 4, 5, 6, 7, 8}} = Working \ {"fetch"}
  BY DEF Awaits, Working
<1> QED  BY <1>2, <1>3, <1>4

LEMMA PcsAre == Pcs = {"off", "validate", "unwind"} \cup Working
BY AwaitsAre DEF Pcs

\* The order of the awaits.
LEMMA NextAwaits ==
  /\ NextAwait("wallet") = "balance"
  /\ NextAwait("balance") = "swaps"
  /\ NextAwait("swaps") = "fees"
  /\ NextAwait("fees") = "nostr"
  /\ NextAwait("nostr") = "proof"
  /\ NextAwait("proof") = "funds"
  /\ NextAwait("funds") = "board"
  /\ NextAwait("board") = "fetch"
<1>1. NextAwait("wallet") = "balance"
  <2>1. \A s \in Pcs : (\E i \in {1, 2, 3, 4, 5, 6, 7, 8} : Awaits[i] = "wallet" /\ Awaits[i + 1] = s) <=> s = "balance"
    BY PcsAre DEF Awaits, Working
  <2> QED  BY <2>1, AwaitsAre, PcsAre DEF NextAwait, Working
<1>2. NextAwait("balance") = "swaps"
  <2>1. \A s \in Pcs : (\E i \in {1, 2, 3, 4, 5, 6, 7, 8} : Awaits[i] = "balance" /\ Awaits[i + 1] = s) <=> s = "swaps"
    BY PcsAre DEF Awaits, Working
  <2> QED  BY <2>1, AwaitsAre, PcsAre DEF NextAwait, Working
<1>3. NextAwait("swaps") = "fees"
  <2>1. \A s \in Pcs : (\E i \in {1, 2, 3, 4, 5, 6, 7, 8} : Awaits[i] = "swaps" /\ Awaits[i + 1] = s) <=> s = "fees"
    BY PcsAre DEF Awaits, Working
  <2> QED  BY <2>1, AwaitsAre, PcsAre DEF NextAwait, Working
<1>4. NextAwait("fees") = "nostr"
  <2>1. \A s \in Pcs : (\E i \in {1, 2, 3, 4, 5, 6, 7, 8} : Awaits[i] = "fees" /\ Awaits[i + 1] = s) <=> s = "nostr"
    BY PcsAre DEF Awaits, Working
  <2> QED  BY <2>1, AwaitsAre, PcsAre DEF NextAwait, Working
<1>5. NextAwait("nostr") = "proof"
  <2>1. \A s \in Pcs : (\E i \in {1, 2, 3, 4, 5, 6, 7, 8} : Awaits[i] = "nostr" /\ Awaits[i + 1] = s) <=> s = "proof"
    BY PcsAre DEF Awaits, Working
  <2> QED  BY <2>1, AwaitsAre, PcsAre DEF NextAwait, Working
<1>6. NextAwait("proof") = "funds"
  <2>1. \A s \in Pcs : (\E i \in {1, 2, 3, 4, 5, 6, 7, 8} : Awaits[i] = "proof" /\ Awaits[i + 1] = s) <=> s = "funds"
    BY PcsAre DEF Awaits, Working
  <2> QED  BY <2>1, AwaitsAre, PcsAre DEF NextAwait, Working
<1>7. NextAwait("funds") = "board"
  <2>1. \A s \in Pcs : (\E i \in {1, 2, 3, 4, 5, 6, 7, 8} : Awaits[i] = "funds" /\ Awaits[i + 1] = s) <=> s = "board"
    BY PcsAre DEF Awaits, Working
  <2> QED  BY <2>1, AwaitsAre, PcsAre DEF NextAwait, Working
<1>8. NextAwait("board") = "fetch"
  <2>1. \A s \in Pcs : (\E i \in {1, 2, 3, 4, 5, 6, 7, 8} : Awaits[i] = "board" /\ Awaits[i + 1] = s) <=> s = "fetch"
    BY PcsAre DEF Awaits, Working
  <2> QED  BY <2>1, AwaitsAre, PcsAre DEF NextAwait, Working
<1> QED  BY <1>1, <1>2, <1>3, <1>4, <1>5, <1>6, <1>7, <1>8

LEMMA KindsGrow ==
  ASSUME NEW pc \in Working \ {"fetch"}
  PROVE  /\ NextAwait(pc) \in Working
         /\ Upto(NextAwait(pc)) = Upto(pc) \cup (Starts[pc] \ {"funds"})
         /\ AtMost(pc) \cup Starts[pc] \subseteq AtMost(NextAwait(pc))
         /\ pc = "funds" => AtMost(pc) \subseteq AtMost(NextAwait(pc))
         /\ Starts[pc] \subseteq Kinds
BY NextAwaits DEF Upto, AtMost, Starts, Kinds, UndoKinds, HandleKinds, Working

-----------------------------------------------------------------------------
(* The parts of the invariant, where a step leaves their variables alone. *)

LEMMA OwnedKept ==
  ASSUME Owned, UNCHANGED <<boot, mode, session, hold, live>>
  PROVE  Owned'
BY DEF Owned, Nobody

LEMMA OneCallerKept ==
  ASSUME OneCaller, UNCHANGED <<boot, mode, timer>>
  PROVE  OneCaller'
BY DEF OneCaller, AllOff

LEMMA ChosenKept ==
  ASSUME Chosen, UNCHANGED <<accounts, mode, boot, engine, notifier, primary, home>>
  PROVE  Chosen'
BY DEF Chosen, loadAccount, Busy

\* A step that begins no bring-up and changes no row.
LEMMA ServedKept ==
  ASSUME Served, UNCHANGED <<accounts, server, override, home, slipped>>,
         \A d \in Callers : Busy(d)' => Busy(d) /\ boot'[d].srv = boot[d].srv /\ boot'[d].from = boot[d].from
  PROVE  Served'
BY DEF Served

BootType == [pc : Pcs, key : Keys \cup {None}, srv : Servers \cup {None}, from : Sources]

LEMMA MovesTo ==
  ASSUME TypeOK, NEW c \in Callers, NEW pc \in Pcs, boot' = [boot EXCEPT ![c].pc = pc]
  PROVE  /\ boot' \in [Callers -> BootType]
         /\ boot'[c].pc = pc /\ boot'[c].key = boot[c].key /\ boot'[c].srv = boot[c].srv /\ boot'[c].from = boot[c].from
         /\ \A d \in Callers : d # c => boot'[d] = boot[d]
BY DEF TypeOK, BootType

LEMMA Becomes ==
  ASSUME TypeOK, NEW c \in Callers, NEW r \in BootType, boot' = [boot EXCEPT ![c] = r]
  PROVE  boot' \in [Callers -> BootType] /\ boot'[c] = r /\ \A d \in Callers : d # c => boot'[d] = boot[d]
BY DEF TypeOK, BootType

LEMMA OffTyped == Off \in BootType /\ Off.pc = "off"
BY PcsAre DEF Off, BootType, Sources

\* A bring-up moves on and the choice of the account stays what it is.
LEMMA ChosenMoves ==
  ASSUME Chosen, Served, UNCHANGED <<db, mode, singles, home, slipped>>,
         \A d \in Callers : /\ boot'[d].key = boot[d].key /\ boot'[d].srv = boot[d].srv /\ boot'[d].from = boot[d].from
                            /\ boot'[d].pc = "off" <=> boot[d].pc = "off"
                            /\ boot'[d].pc = "validate" <=> boot[d].pc = "validate"
  PROVE  Chosen' /\ Served'
<1>1. \A d \in Callers : Busy(d)' <=> Busy(d)
  BY DEF Busy
<1>2. Chosen'
  BY <1>1 DEF Chosen, loadAccount, Callers, db, singles
<1>3. Served'
  BY <1>1, ServedKept DEF db
<1> QED  BY <1>2, <1>3

\* The first await begins with nothing running.
LEMMA OwnedFromNothing ==
  ASSUME NEW c \in Callers, live = {}, Nobody, UNCHANGED <<hold, live>>, mode' # "ready",
         boot'[c].pc = "wallet", \A d \in Callers : d # c => boot'[d].pc = "off"
  PROVE  Owned'
<1>1. Upto("wallet") = {}
  BY DEF Upto, Starts
<1> QED  BY <1>1 DEF Owned, Nobody, Working

LEMMA LoadsKey ==
  ASSUME TypeOK, accounts # <<>>
  PROVE  loadAccount = accounts[1].key /\ loadAccount \in Keys
<1>1. accounts[1] \in [by : Callers, key : Keys]
  <2>1. accounts \in Seq([by : Callers, key : Keys])
    BY DEF TypeOK
  <2>2. 1 \in 1..Len(accounts)
    BY <2>1, EmptySeq
  <2> QED  BY <2>1, <2>2, ElementOfSeq
<1> QED  BY <1>1 DEF loadAccount

\* Where the servers of a bring-up come from.
LEMMA ResolvesServer ==
  ASSUME NEW row \in Servers \cup {None}, NEW file \in Servers \cup {None}, NEW def \in Servers, NEW key \in Keys
  PROVE  LET set == resolveServerSet(row, file, def)
         IN  /\ set.srv \in Servers /\ set.from \in {"config", "row", "defaults"}
             /\ set.from = "row" => set.srv = row
             /\ set.from = "defaults" => row = None /\ file = None
             /\ begun(key, set) \in BootType /\ begun(key, set).pc = "wallet" /\ begun(key, set).key = key
             /\ begun(key, set).srv = set.srv /\ begun(key, set).from = set.from
<1> DEFINE set == resolveServerSet(row, file, def)
<1>1. /\ set.srv \in Servers /\ set.from \in {"config", "row", "defaults"}
      /\ set.from = "row" => set.srv = row
      /\ set.from = "defaults" => row = None /\ file = None
  BY LifecycleAssumption DEF resolveServerSet
<1> HIDE DEF set
<1>2. /\ begun(key, set) \in BootType /\ begun(key, set).pc = "wallet" /\ begun(key, set).key = key
      /\ begun(key, set).srv = set.srv /\ begun(key, set).from = set.from
  BY <1>1, PcsAre DEF begun, BootType, Working, Sources
<1> QED  BY <1>1, <1>2 DEF set

-----------------------------------------------------------------------------
(* One lemma per action. *)

LEMMA LifeAdvance ==
  ASSUME OnePost, LifeInv, NEW c \in Callers, Advance(c)
  PROVE  LifeInv'
<1> DEFINE pc == boot[c].pc
<1> USE DEF LifeInv
<1>1. pc \in Working \ {"fetch"} /\ pc \in Pcs
  BY AwaitsAre, PcsAre DEF Advance
<1>2. PICK kinds \in {Starts[pc]} \cup (IF pc = "funds" THEN {{}} ELSE {}) : Started(c, kinds)
  BY DEF Advance
<1>3. kinds \subseteq Starts[pc] /\ Starts[pc] \ {"funds"} \subseteq kinds
  BY <1>2 DEF Starts
<1>4. /\ NextAwait(pc) \in Working /\ Starts[pc] \subseteq Kinds
      /\ Upto(NextAwait(pc)) = Upto(pc) \cup (Starts[pc] \ {"funds"})
      /\ AtMost(pc) \cup Starts[pc] \subseteq AtMost(NextAwait(pc))
  BY <1>1, KindsGrow
<1>5. boot' = [boot EXCEPT ![c].pc = NextAwait(pc)]
  BY DEF Advance
<1>6. /\ boot' \in [Callers -> BootType]
      /\ boot'[c].pc = NextAwait(pc) /\ boot'[c].key = boot[c].key /\ boot'[c].srv = boot[c].srv /\ boot'[c].from = boot[c].from
      /\ \A d \in Callers : d # c => boot'[d] = boot[d]
  BY <1>4, <1>5, PcsAre, MovesTo
<1>7. live' = live \cup (kinds \X {c}) /\ \A k \in HandleKinds : hold'[k] = IF k \in kinds THEN c ELSE hold[k]
  BY <1>2 DEF Started
<1>8. \/ rec' = rec /\ news' = news
      \/ rec' = [rec EXCEPT ![c] = [running |-> 1, queued |-> FALSE]] /\ news' = news \ {c}
  BY DEF Advance, reconcileReceives, Quiet
<1> HIDE DEF pc
<1>9. TypeOK'
  <2>1. rec' \in [Callers -> [running : Nat, queued : BOOLEAN]]
    <3>1. [running |-> 1, queued |-> FALSE] \in [running : Nat, queued : BOOLEAN]
      OBVIOUS
    <3> QED  BY <1>8, <3>1 DEF TypeOK
  <2>2. sock' \in [Callers -> {"off", "connecting", "open", "waiting"}]
    BY DEF Advance, TypeOK
  <2>3. live' \subseteq Kinds \X Callers
    BY <1>3, <1>4, <1>7 DEF TypeOK
  <2>4. hold' \in [HandleKinds -> Callers \cup {None}]
    BY <1>2 DEF Started, TypeOK
  <2>5. news' \subseteq Callers
    BY <1>8 DEF TypeOK
  <2> QED  BY <1>6, <2>1, <2>2, <2>3, <2>4, <2>5 DEF TypeOK, BootType, Advance, db, singles, past
<1>10. OneCaller'
  BY <1>1, <1>4, <1>6, LifecycleAssumption DEF OneCaller, AllOff, Working, Advance, Callers, pc
<1>11. Owned'
  <2>1. mode # "ready" /\ \A d \in Callers : boot'[d].pc # "off" => d = c
    BY <1>1, <1>6 DEF OneCaller, AllOff, Working, pc
  <2>2. Upto(pc) \X {c} \subseteq live /\ live \subseteq AtMost(pc) \X {c}
    BY <1>1 DEF Owned, pc
  <2>3. Upto(NextAwait(pc)) \X {c} \subseteq live' /\ live' \subseteq AtMost(NextAwait(pc)) \X {c}
    BY <1>3, <1>4, <1>7, <2>2
  <2>4. \A k \in HandleKinds : hold'[k] = IF <<k, c>> \in live' THEN c ELSE None
    BY <1>1, <1>7 DEF Owned, pc
  <2> QED  BY <1>4, <1>6, <2>1, <2>3, <2>4 DEF Owned, Working, Advance
<1>12. Chosen' /\ Served'
  <2>1. UNCHANGED <<db, mode, singles, home, slipped>>
    BY DEF Advance, past
  <2> QED  BY <1>1, <1>4, <1>6, <2>1, ChosenMoves DEF Working, pc
<1>13. Turns'
  <2>1. CASE rec' = rec /\ news' = news
    BY <2>1 DEF Turns
  <2>2. CASE rec' = [rec EXCEPT ![c] = [running |-> 1, queued |-> FALSE]] /\ news' = news \ {c}
    <3>1. rec'[c] = [running |-> 1, queued |-> FALSE] /\ \A d \in Callers : d # c => rec'[d] = rec[d]
      BY <2>2 DEF TypeOK
    <3> QED  BY <2>2, <3>1 DEF Turns
  <2> QED  BY <1>8, <2>1, <2>2
<1> QED  BY <1>9, <1>10, <1>11, <1>12, <1>13

LEMMA LifeReady ==
  ASSUME OnePost, LifeInv, NEW c \in Callers, Ready(c)
  PROVE  LifeInv'
<1> USE DEF LifeInv
<1>1. boot[c].pc = "fetch" /\ Busy(c) /\ boot[c].key = loadAccount /\ accounts # <<>>
  BY DEF Ready, Busy, Chosen
<1>2. boot' \in [Callers -> BootType] /\ boot'[c] = Off /\ \A d \in Callers : d # c => boot'[d] = boot[d]
  BY OffTyped, Becomes DEF Ready
<1>3. \A d \in Callers : boot'[d].pc = "off"
  BY <1>1, <1>2, OffTyped DEF OneCaller
<1>4. /\ loadAccount \in Keys /\ boot[c].srv \in Servers
      /\ boot[c].from # "config" => boot[c].srv = server \/ slipped
  BY <1>1, LoadsKey DEF Served
<1>5. /\ home' \in [Keys -> Servers \cup {None}]
      /\ \A k \in Keys : home'[k] # None => k = loadAccount /\ (home'[k] = server \/ slipped)
  BY <1>1, <1>4 DEF Ready, TypeOK, Chosen, Served
<1>6. TypeOK'
  BY <1>2, <1>5 DEF TypeOK, Ready, BootType, db, handles, singles, passes
<1>7. OneCaller'
  BY <1>3, LifecycleAssumption DEF OneCaller, AllOff, Ready, Callers
<1>8. Owned'
  <2>1. /\ Upto("fetch") = Kinds \ {"funds"} /\ AtMost("fetch") = Kinds
    BY DEF Upto, AtMost, Kinds, UndoKinds, HandleKinds, Starts
  <2>2. (Kinds \ {"funds"}) \X {c} \subseteq live /\ live \subseteq Kinds \X {c}
    BY <1>1, <2>1 DEF Owned, Working
  <2> QED  BY <1>3, <2>2 DEF Owned, Working, Ready, handles
<1>9. Chosen'
  <2>1. UNCHANGED <<accounts, primary, engine, notifier>> /\ mode' = "ready"
    BY DEF Ready, db, singles
  <2>2. \A d \in Callers : ~Busy(d)'
    BY <1>3 DEF Busy
  <2>3. primary = loadAccount /\ engine # None /\ notifier # None
    BY <1>1 DEF Chosen
  <2>4. loadAccount' = loadAccount
    BY <2>1 DEF loadAccount
  <2> QED  BY <1>1, <1>3, <1>5, <2>1, <2>2, <2>3, <2>4 DEF Chosen, Callers
<1>10. Served'
  <2>1. UNCHANGED <<accounts, server, override, slipped>> /\ \A d \in Callers : ~Busy(d)'
    BY <1>3 DEF Ready, db, Busy
  <2> QED  BY <1>5, <2>1 DEF Served
<1>11. Turns'
  BY DEF Turns, Ready, passes
<1> QED  BY <1>6, <1>7, <1>8, <1>9, <1>10, <1>11

LEMMA LifeFail ==
  ASSUME OnePost, LifeInv, NEW c \in Callers, Fail(c)
  PROVE  LifeInv'
<1> USE DEF LifeInv
<1>1. boot[c].pc \in Working /\ "unwind" \in Pcs
  BY PcsAre DEF Fail, Working
<1>2. /\ boot' \in [Callers -> BootType]
      /\ boot'[c].pc = "unwind" /\ boot'[c].key = boot[c].key /\ boot'[c].srv = boot[c].srv /\ boot'[c].from = boot[c].from
      /\ \A d \in Callers : d # c => boot'[d] = boot[d]
  BY <1>1, MovesTo DEF Fail
<1>3. live' = live \ {<<k, hold[k]>> : k \in HandleKinds} /\ \A k \in HandleKinds : hold'[k] = None
  BY DEF Fail, stopHandles
<1>4. rec' = [rec EXCEPT ![c] = [running |-> 0, queued |-> FALSE]] /\ news' = news \ {c}
  BY DEF Fail, Quiet
<1>5. TypeOK'
  <2>1. rec' \in [Callers -> [running : Nat, queued : BOOLEAN]]
    BY <1>4 DEF TypeOK
  <2>2. sock' \in [Callers -> {"off", "connecting", "open", "waiting"}]
    BY DEF Fail, TypeOK
  <2>3. hold' \in [HandleKinds -> Callers \cup {None}] /\ live' \subseteq Kinds \X Callers
    BY <1>3 DEF Fail, TypeOK
  <2>4. stray' \in {"none", "running", "queued"}
    BY DEF Fail, TypeOK
  <2> QED  BY <1>2, <1>4, <2>1, <2>2, <2>3, <2>4 DEF TypeOK, BootType, Fail, db, singles, past
<1>6. OneCaller'
  BY <1>1, <1>2, LifecycleAssumption DEF OneCaller, AllOff, Working, Fail, Callers
<1>7. Owned'
  <2>1. mode # "ready" /\ \A d \in Callers : boot'[d].pc # "off" => d = c
    BY <1>1, <1>2 DEF OneCaller, AllOff, Working
  <2>2. live \subseteq Kinds \X {c} /\ \A k \in HandleKinds : <<k, c>> \in live => hold[k] = c
    <3>1. AtMost(boot[c].pc) \subseteq Kinds
      BY DEF AtMost, Upto, Kinds, HandleKinds
    <3> QED  BY <1>1, <3>1 DEF Owned
  <2>3. live' \subseteq UndoKinds \X {c}
    BY <1>3, <2>2 DEF Kinds
  <2> QED  BY <1>2, <1>3, <2>1, <2>3 DEF Owned, Working, Nobody, Fail
<1>8. Chosen' /\ Served'
  <2>1. UNCHANGED <<db, mode, singles, home, slipped>>
    BY DEF Fail, past
  <2> QED  BY <1>1, <1>2, <2>1, ChosenMoves DEF Working
<1>9. Turns'
  BY <1>4 DEF Turns, TypeOK
<1> QED  BY <1>5, <1>6, <1>7, <1>8, <1>9

\* A poke starts a pass or is remembered; the end of a pass runs what was.
LEMMA PokeTurns ==
  ASSUME NEW r \in [running : Nat, queued : BOOLEAN], r.running <= 1, r.queued => r.running = 1
  PROVE  LET n == reconcileReceives(r)
         IN  /\ n \in [running : Nat, queued : BOOLEAN] /\ n.running <= 1 /\ (n.queued => n.running = 1)
             /\ n.running > r.running \/ n.queued
<1>1. CASE r.running > 0
  <2>1. reconcileReceives(r) = [r EXCEPT !.queued = TRUE]
    BY <1>1 DEF reconcileReceives
  <2>2. /\ reconcileReceives(r) \in [running : Nat, queued : BOOLEAN] /\ reconcileReceives(r).running = r.running
        /\ reconcileReceives(r).queued = TRUE
    BY <2>1
  <2> QED  BY <1>1, <2>2
<1>2. CASE ~(r.running > 0)
  BY <1>2 DEF reconcileReceives
<1> QED  BY <1>1, <1>2

LEMMA DoneTurns ==
  ASSUME NEW r \in [running : Nat, queued : BOOLEAN], r.running <= 1, r.queued => r.running = 1, r.running > 0
  PROVE  LET n == passDone(r)
         IN  /\ n \in [running : Nat, queued : BOOLEAN] /\ n.running <= 1 /\ (n.queued => n.running = 1)
             /\ n.running < r.running => ~r.queued
BY DEF passDone

\* What a step of the passes may do, and that their invariant survives it.
PassStep(c) ==
  \/ /\ rec' = [rec EXCEPT ![c] = reconcileReceives(rec[c])]
     /\ news' = IF rec'[c].running > rec[c].running THEN news \ {c} ELSE news \cup {c}
  \/ /\ rec[c].running > 0 /\ rec' = [rec EXCEPT ![c] = passDone(rec[c])]
     /\ news' = IF rec'[c].running < rec[c].running THEN news ELSE news \ {c}

RecInv == rec \in [Callers -> [running : Nat, queued : BOOLEAN]] /\ news \subseteq Callers /\ Turns

LEMMA PassTurns ==
  ASSUME RecInv, NEW c \in Callers, PassStep(c)
  PROVE  RecInv'
<1> DEFINE r == rec[c]
<1>1. r \in [running : Nat, queued : BOOLEAN] /\ r.running <= 1 /\ (r.queued => r.running = 1) /\ (c \in news => r.queued)
  BY DEF RecInv, Turns
<1>2. CASE /\ rec' = [rec EXCEPT ![c] = reconcileReceives(r)]
           /\ news' = IF rec'[c].running > r.running THEN news \ {c} ELSE news \cup {c}
  <2> DEFINE n == reconcileReceives(r)
  <2>1. /\ n \in [running : Nat, queued : BOOLEAN] /\ n.running <= 1 /\ (n.queued => n.running = 1)
        /\ n.running > r.running \/ n.queued
    BY <1>1, PokeTurns
  <2> HIDE DEF n, r
  <2>2. rec' \in [Callers -> [running : Nat, queued : BOOLEAN]] /\ rec'[c] = n /\ \A d \in Callers : d # c => rec'[d] = rec[d]
    BY <1>2, <2>1 DEF RecInv, n
  <2>3. news' \subseteq Callers /\ (c \in news' => n.queued) /\ \A d \in Callers : d # c /\ d \in news' => d \in news
    BY <1>2, <2>1, <2>2 DEF RecInv
  <2> QED  BY <2>1, <2>2, <2>3 DEF RecInv, Turns
<1>3. CASE /\ r.running > 0 /\ rec' = [rec EXCEPT ![c] = passDone(r)]
           /\ news' = IF rec'[c].running < r.running THEN news ELSE news \ {c}
  <2> DEFINE n == passDone(r)
  <2>1. /\ n \in [running : Nat, queued : BOOLEAN] /\ n.running <= 1 /\ (n.queued => n.running = 1)
        /\ n.running < r.running => ~r.queued
    BY <1>1, <1>3, DoneTurns
  <2> HIDE DEF n, r
  <2>2. rec' \in [Callers -> [running : Nat, queued : BOOLEAN]] /\ rec'[c] = n /\ \A d \in Callers : d # c => rec'[d] = rec[d]
    BY <1>3, <2>1 DEF RecInv, n
  <2>3. news' \subseteq Callers /\ c \notin news' /\ \A d \in Callers : d # c /\ d \in news' => d \in news
    BY <1>1, <1>3, <2>1, <2>2 DEF RecInv
  <2> QED  BY <2>1, <2>2, <2>3 DEF RecInv, Turns
<1> QED  BY <1>2, <1>3 DEF PassStep

LEMMA LifePoke ==
  ASSUME LifeInv, NEW c \in Callers, Poke(c) \/ PassEnds(c)
  PROVE  LifeInv'
<1> USE DEF LifeInv
<1>1. UNCHANGED <<db, up, mode, session, boot, handles, singles, timer, stray, sock, past>>
  BY DEF Poke, PassEnds
<1>2. RecInv'
  <2>1. PassStep(c) /\ RecInv
    BY DEF Poke, PassEnds, PassStep, RecInv, TypeOK
  <2> QED  BY <2>1, PassTurns
<1>3. TypeOK' /\ Turns'
  BY <1>1, <1>2 DEF TypeOK, RecInv, db, handles, singles, past
<1>4. OneCaller' /\ Owned' /\ Chosen' /\ Served'
  BY <1>1, OneCallerKept, OwnedKept, ChosenKept, ServedKept DEF db, handles, singles, past, Busy
<1> QED  BY <1>3, <1>4

LEMMA LifeWs ==
  ASSUME LifeInv, NEW c \in Callers, WsOpen(c) \/ WsClose(c) \/ WsReconnect(c)
  PROVE  LifeInv'
<1> USE DEF LifeInv
<1>1. UNCHANGED <<db, up, mode, session, boot, handles, singles, timer, passes, past>>
  BY DEF WsOpen, WsClose, WsReconnect, WsStep
<1>2. PICK to \in {"open", "waiting", "connecting"} : sock' = [sock EXCEPT ![c] = to]
  BY DEF WsOpen, WsClose, WsReconnect, WsStep
<1>3. sock' \in [Callers -> {"off", "connecting", "open", "waiting"}]
  BY <1>2 DEF TypeOK
<1>4. TypeOK' /\ Turns'
  BY <1>1, <1>3 DEF TypeOK, Turns, db, handles, singles, passes, past
<1>5. OneCaller' /\ Owned' /\ Chosen' /\ Served'
  BY <1>1, OneCallerKept, OwnedKept, ChosenKept, ServedKept DEF db, handles, singles, past, Busy
<1> QED  BY <1>4, <1>5

\* While a setup form is in flight nobody else is.
LEMMA OthersOff ==
  ASSUME LifeInv, NEW c \in Callers, boot[c].pc # "off"
  PROVE  mode # "ready" /\ \A d \in Callers : d # c => boot[d].pc = "off"
BY DEF LifeInv, OneCaller, AllOff

LEMMA LifeSetup ==
  ASSUME OnePost, LifeInv, NEW p \in Posts, NEW key \in Keys, NEW s \in Servers, Setup(p, key, s)
  PROVE  LifeInv'
<1> USE DEF LifeInv
<1> DEFINE new == [pc |-> "validate", key |-> key, srv |-> s, from |-> None]
<1>1. p \in Callers /\ new \in BootType /\ mode = "setup"
  BY PcsAre DEF Callers, BootType, Sources, Setup
<1>2. boot' \in [Callers -> BootType] /\ boot'[p] = new /\ \A d \in Callers : d # p => boot'[d] = boot[d]
  BY <1>1, Becomes DEF Setup
<1>3. AllOff /\ \A c \in Callers : c # p => boot'[c].pc = "off"
  BY <1>2 DEF AllOff, Setup, Serving, Callers, OnePost
<1>4. accounts = <<>> /\ live = {} /\ Nobody
  BY <1>1, <1>3 DEF Chosen, Owned, AllOff, Busy
<1>5. UNCHANGED <<db, up, mode, session, handles, singles, timer, passes, sock, past>>
  BY DEF Setup
<1>6. TypeOK' /\ Turns'
  BY <1>2, <1>5 DEF TypeOK, Turns, BootType, db, handles, singles, passes, past
<1>7. OneCaller'
  BY <1>1, <1>2, <1>3, <1>5, LifecycleAssumption DEF OneCaller, AllOff, Callers
<1>8. Owned'
  BY <1>1, <1>2, <1>3, <1>4, <1>5 DEF Owned, Working, Nobody, handles
<1>9. Chosen'
  <2>1. \A c \in Callers : ~Busy(c)'
    BY <1>2, <1>3 DEF Busy
  <2>2. Boot # p
    BY LifecycleAssumption
  <2>3. \A q \in Posts : boot'[q].pc = "validate" => boot'[q].key \in Keys /\ boot'[q].srv \in Servers
    BY <1>2, <1>3 DEF Callers
  <2> QED  BY <1>1, <1>4, <1>5, <2>1, <2>3 DEF Chosen, loadAccount, db, singles, past, Callers
<1>10. Served'
  <2>1. \A c \in Callers : ~Busy(c)'
    BY <1>2, <1>3 DEF Busy
  <2> QED  BY <1>5, <2>1, ServedKept DEF db, past
<1> QED  BY <1>6, <1>7, <1>8, <1>9, <1>10

LEMMA LifeInvalid ==
  ASSUME LifeInv, NEW p \in Posts, Invalid(p)
  PROVE  LifeInv'
<1> USE DEF LifeInv
<1>1. p \in Callers /\ boot[p].pc = "validate" /\ mode = "setup"
  BY DEF Callers, Invalid, OneCaller
<1>2. boot' \in [Callers -> BootType] /\ boot'[p] = Off /\ \A d \in Callers : d # p => boot'[d] = boot[d]
  BY <1>1, OffTyped, Becomes DEF Invalid
<1>3. (\A d \in Callers : boot[d].pc \in {"off", "validate"}) /\ \A d \in Callers : boot'[d].pc = "off"
  BY <1>1, <1>2, OthersOff, OffTyped
<1>4. accounts = <<>> /\ live = {} /\ Nobody
  BY <1>1, <1>3 DEF Chosen, Owned, Busy
<1>5. UNCHANGED <<db, up, mode, session, handles, singles, timer, passes, sock, past>>
  BY DEF Invalid
<1>6. TypeOK' /\ Turns'
  BY <1>2, <1>5 DEF TypeOK, Turns, BootType, db, handles, singles, passes, past
<1>7. OneCaller'
  BY <1>1, <1>3, <1>5, LifecycleAssumption DEF OneCaller, AllOff, Callers
<1>8. Owned'
  BY <1>1, <1>3, <1>4, <1>5 DEF Owned, Working, Nobody, handles
<1>9. Chosen'
  <2>1. \A c \in Callers : ~Busy(c)'
    BY <1>3 DEF Busy
  <2> QED  BY <1>1, <1>3, <1>4, <1>5, <2>1 DEF Chosen, loadAccount, db, singles, past, Callers
<1>10. Served'
  <2>1. \A c \in Callers : ~Busy(c)'
    BY <1>3 DEF Busy
  <2> QED  BY <1>5, <2>1, ServedKept DEF db, past
<1> QED  BY <1>6, <1>7, <1>8, <1>9, <1>10

LEMMA LifeValidated ==
  ASSUME OnePost, LifeInv, NEW p \in Posts, Validated(p)
  PROVE  LifeInv'
<1> USE DEF LifeInv
<1> DEFINE key == boot[p].key
           row == [by |-> p, key |-> key]
           set == resolveServerSet(server', override, default)
           new == begun(key, set)
<1>1. p \in Callers /\ boot[p].pc = "validate" /\ mode = "setup" /\ accounts = <<>>
  BY DEF Callers, Validated, OneCaller, Chosen
<1>2. key \in Keys /\ server' \in Servers
  BY <1>1 DEF Validated, Chosen
<1>3. accounts' = <<row>> /\ accounts' \in Seq([by : Callers, key : Keys]) /\ Len(accounts') = 1 /\ accounts'[1] = row
  <2>1. accounts' = Append(<<>>, row)
    BY <1>1 DEF Validated
  <2>2. row \in [by : Callers, key : Keys]
    BY <1>1, <1>2
  <2> HIDE DEF row
  <2> QED  BY <2>1, <2>2
<1>4. /\ new \in BootType /\ new.pc = "wallet" /\ new.key = key /\ new.srv \in Servers
      /\ new.from \in {"config", "row", "defaults"}
      /\ new.from = "row" => new.srv = server'
      /\ new.from # "defaults"
  <2>1. server' \in Servers \cup {None} /\ override \in Servers \cup {None} /\ default \in Servers /\ server' # None
    BY <1>2, LifecycleAssumption DEF TypeOK
  <2>2. PICK r \in Servers : server' = r
    BY <1>2
  <2> HIDE DEF key
  <2>3. LET chosen == resolveServerSet(r, override, default)
        IN  /\ chosen.srv \in Servers /\ chosen.from \in {"config", "row", "defaults"}
            /\ chosen.from = "row" => chosen.srv = r
            /\ chosen.from = "defaults" => r = None /\ override = None
            /\ begun(key, chosen) \in BootType /\ begun(key, chosen).pc = "wallet" /\ begun(key, chosen).key = key
            /\ begun(key, chosen).srv = chosen.srv /\ begun(key, chosen).from = chosen.from
    BY <1>2, <2>1, <2>2, ResolvesServer
  <2> QED  BY <2>1, <2>2, <2>3
<1>5. /\ boot' = [boot EXCEPT ![p] = new] /\ primary' = key
      /\ engine' = ensure(engine, key) /\ notifier' = ensure(notifier, key)
  BY DEF Validated, EnterBoot
<1>6. boot' \in [Callers -> BootType] /\ boot'[p] = new /\ \A d \in Callers : d # p => boot'[d] = boot[d]
  BY <1>1, <1>4, <1>5, Becomes
<1>7. \A d \in Callers : d # p => boot'[d].pc = "off" /\ boot[d].pc = "off"
  BY <1>1, <1>6, OthersOff
<1>8. {engine', notifier', primary'} \subseteq Keys /\ None \notin Keys
  BY <1>2, <1>5, LifecycleAssumption DEF ensure, TypeOK
<1>9. /\ UNCHANGED <<override, default, up, mode, session, hold, live, timer, passes, sock, past>>
      /\ live = {} /\ Nobody
  BY <1>1, <1>7 DEF Validated, handles, Owned
<1>10. TypeOK'
  <2>1. 1 <= 1 + Cardinality(Posts)
    BY LifecycleAssumption, FS_CardinalityType
  <2> HIDE DEF key, row, set, new
  <2> QED  BY <1>2, <1>3, <1>6, <1>8, <1>9, <2>1 DEF TypeOK, BootType, passes, past
<1>11. OneCaller'
  BY <1>1, <1>4, <1>6, <1>7, <1>9, LifecycleAssumption DEF OneCaller, AllOff, Callers
<1>12. Owned'
  BY <1>1, <1>4, <1>6, <1>7, <1>9, OwnedFromNothing
<1>13. Chosen'
  <2>1. loadAccount' = key /\ accounts' # <<>>
    BY <1>3 DEF loadAccount
  <2>3. \A k \in Keys : home'[k] = None
    BY <1>1, <1>9 DEF Chosen, past
  <2>4. \A d \in Callers : Busy(d)' => d = p
    BY <1>7 DEF Busy
  <2>5. Busy(p)' /\ boot'[p].pc # "validate" /\ boot'[p].key = key
    BY <1>4, <1>6 DEF Busy
  <2>6. \A q \in Posts : q = p
    BY DEF OnePost
  <2>7. server' # None /\ mode' = "setup" /\ primary' = key /\ engine' # None /\ notifier' # None
    BY <1>1, <1>2, <1>5, <1>8, <1>9, LifecycleAssumption
  <2>8. Len(accounts') <= 1 /\ accounts'[1].by = p
    BY <1>3
  <2> HIDE DEF key, row, new
  <2> QED  BY <1>1, <2>1, <2>3, <2>4, <2>5, <2>6, <2>7, <2>8 DEF Chosen
<1>14. Served'
  <2>1. \A d \in Callers : Busy(d)' => d = p
    BY <1>7 DEF Busy
  <2>2. server' # None /\ accounts' # <<>> /\ \A k \in Keys : home'[k] = None
    BY <1>1, <1>2, <1>3, <1>9, LifecycleAssumption DEF Chosen, past
  <2> HIDE DEF key, row, set, new
  <2> QED  BY <1>4, <1>6, <2>1, <2>2 DEF Served
<1>15. Turns'
  BY <1>9 DEF Turns, passes
<1> QED  BY <1>10, <1>11, <1>12, <1>13, <1>14, <1>15

LEMMA OneRow ==
  ASSUME TypeOK, Chosen, accounts # <<>>
  PROVE  accounts \in Seq([by : Callers, key : Keys]) /\ Len(accounts) = 1
<1>1. accounts \in Seq([by : Callers, key : Keys])
  BY DEF TypeOK
<1>2. Len(accounts) \in Nat \ {0}
  BY <1>1, EmptySeq
<1>3. Len(accounts) <= 1
  BY DEF Chosen
<1>4. \A n \in Nat \ {0} : n <= 1 => n = 1
  OBVIOUS
<1>5. Len(accounts) = 1
  BY <1>2, <1>3, <1>4, Zenon
<1> QED  BY <1>1, <1>5

LEMMA LifeSetupFails ==
  ASSUME OnePost, LifeInv, NEW p \in Posts, SetupFails(p)
  PROVE  LifeInv'
<1> USE DEF LifeInv
<1>1. p \in Callers /\ boot[p].pc = "unwind" /\ mode = "setup" /\ Busy(p)
  BY DEF Callers, SetupFails, OneCaller, Busy
<1>2. boot' \in [Callers -> BootType] /\ boot'[p] = Off /\ \A d \in Callers : d # p => boot'[d] = boot[d]
  BY <1>1, OffTyped, Becomes DEF SetupFails
<1>3. \A d \in Callers : boot'[d].pc = "off"
  BY <1>1, <1>2, OthersOff, OffTyped
<1>4. accounts' = <<>> /\ server' = None
  <2>1. accounts \in Seq([by : Callers, key : Keys]) /\ Len(accounts) = 1
    BY <1>1, OneRow DEF Chosen
  <2>2. PICK i \in DOMAIN accounts : accounts' = RemoveAt(accounts, i)
    BY DEF SetupFails, rollback, deleteAccount
  <2>3. accounts' = SubSeq(accounts, 1, 0) \o SubSeq(accounts, 2, 1)
    BY <2>1, <2>2 DEF RemoveAt
  <2> QED  BY <2>1, <2>3 DEF SetupFails, rollback
<1>5. live' = {} /\ Nobody /\ \A k \in Keys : home[k] = None
  BY <1>1 DEF SetupFails, unwound, Owned, Chosen
<1>6. UNCHANGED <<override, default, up, mode, session, hold, singles, timer, passes, sock, past>>
  BY DEF SetupFails
<1>7. TypeOK' /\ Turns'
  <2>1. accounts' \in Seq([by : Callers, key : Keys]) /\ Len(accounts') = 0
    BY <1>4
  <2>2. Len(accounts') <= 1 + Cardinality(Posts)
    BY <2>1, LifecycleAssumption, FS_CardinalityType
  <2> QED  BY <1>2, <1>4, <1>5, <1>6, <2>1, <2>2 DEF TypeOK, Turns, BootType, singles, passes, past
<1>8. OneCaller'
  BY <1>1, <1>3, <1>6, LifecycleAssumption DEF OneCaller, AllOff, Callers
<1>9. Owned'
  BY <1>1, <1>3, <1>5, <1>6 DEF Owned, Working, Nobody
<1>10. Chosen'
  <2>1. \A c \in Callers : ~Busy(c)'
    BY <1>3 DEF Busy
  <2>2. Len(accounts') = 0
    BY <1>4
  <2> QED  BY <1>1, <1>3, <1>4, <1>5, <1>6, <2>1, <2>2 DEF Chosen, Callers, past
<1>11. Served'
  <2>1. \A c \in Callers : ~Busy(c)'
    BY <1>3 DEF Busy
  <2> QED  BY <1>4, <1>5, <1>6, <2>1 DEF Served, past
<1> QED  BY <1>7, <1>8, <1>9, <1>10, <1>11

LEMMA LifeDegrade ==
  ASSUME LifeInv, Degrade
  PROVE  LifeInv'
<1> USE DEF LifeInv
<1>1. Boot \in Callers /\ boot[Boot].pc = "unwind" /\ Busy(Boot) /\ "off" \in Pcs
  BY PcsAre DEF Callers, Degrade, Busy
<1>2. /\ boot' \in [Callers -> BootType] /\ boot'[Boot].pc = "off" /\ boot'[Boot].key = boot[Boot].key
      /\ \A d \in Callers : d # Boot => boot'[d] = boot[d]
  BY <1>1, MovesTo DEF Degrade
<1>3. \A d \in Callers : boot'[d].pc = "off"
  BY <1>1, <1>2, OthersOff
<1>4. live' = {} /\ Nobody
  BY <1>1 DEF Degrade, unwound, Owned
<1>5. /\ UNCHANGED <<db, up, session, hold, singles, passes, sock, past>>
      /\ mode' = "degraded" /\ timer' = TRUE
  BY DEF Degrade
<1>6. TypeOK' /\ Turns'
  BY <1>2, <1>4, <1>5 DEF TypeOK, Turns, BootType, db, singles, passes, past
<1>7. OneCaller'
  BY <1>1, <1>3, <1>5, LifecycleAssumption DEF OneCaller, AllOff, Callers
<1>8. Owned'
  BY <1>3, <1>4, <1>5 DEF Owned, Working, Nobody
<1>9. Chosen'
  <2>1. \A c \in Callers : ~Busy(c)'
    BY <1>3 DEF Busy
  <2>2. boot'[Boot].key = loadAccount /\ accounts # <<>>
    BY <1>1, <1>2 DEF Chosen
  <2> QED  BY <1>3, <1>5, <2>1, <2>2 DEF Chosen, loadAccount, db, past, Callers
<1>10. Served'
  <2>1. \A c \in Callers : ~Busy(c)'
    BY <1>3 DEF Busy
  <2> QED  BY <1>5, <2>1, ServedKept DEF db, past
<1> QED  BY <1>6, <1>7, <1>8, <1>9, <1>10

LEMMA LifeRetryFires ==
  ASSUME LifeInv, RetryFires
  PROVE  LifeInv'
<1> USE DEF LifeInv
<1> DEFINE key == boot[Boot].key
           set == resolveServerSet(server, override, default)
           new == begun(key, set)
<1>1. Boot \in Callers /\ mode = "degraded" /\ \A d \in Callers : boot[d].pc = "off"
  BY DEF Callers, RetryFires, OneCaller
<1>2. key = loadAccount /\ accounts # <<>> /\ key \in Keys
  BY <1>1, LoadsKey DEF Chosen
<1>3. /\ new \in BootType /\ new.pc = "wallet" /\ new.key = key /\ new.srv \in Servers
      /\ new.from \in {"config", "row", "defaults"}
      /\ new.from = "row" => new.srv = server
      /\ new.from = "defaults" => slipped
  <2>1. server \in Servers \cup {None} /\ override \in Servers \cup {None} /\ default \in Servers
    BY DEF TypeOK
  <2>2. server = None /\ override = None => slipped
    BY <1>2 DEF Served
  <2> QED  BY <1>2, <2>1, <2>2, ResolvesServer
<1>4. /\ boot' = [boot EXCEPT ![Boot] = new] /\ primary' = key
      /\ engine' = ensure(engine, key) /\ notifier' = ensure(notifier, key)
  BY DEF RetryFires, EnterBoot
<1>5. boot' \in [Callers -> BootType] /\ boot'[Boot] = new /\ \A d \in Callers : d # Boot => boot'[d] = boot[d]
  BY <1>1, <1>3, <1>4, Becomes
<1>6. {engine', notifier', primary'} \subseteq Keys /\ None \notin Keys
  BY <1>2, <1>4, LifecycleAssumption DEF ensure, TypeOK
<1>7. /\ UNCHANGED <<db, up, mode, session, hold, live, passes, sock, past>>
      /\ timer' = FALSE /\ live = {} /\ Nobody
  BY <1>1 DEF RetryFires, handles, Owned
<1>8. TypeOK' /\ Turns'
  BY <1>5, <1>6, <1>7 DEF TypeOK, Turns, BootType, db, passes, past
<1>9. OneCaller'
  BY <1>1, <1>3, <1>5, <1>7, LifecycleAssumption DEF OneCaller, AllOff, Callers
<1>10. Owned'
  BY <1>1, <1>3, <1>5, <1>7, OwnedFromNothing
<1>11. Chosen'
  <2>1. loadAccount' = key /\ UNCHANGED <<accounts, home>>
    BY <1>2, <1>7 DEF loadAccount, db, past
  <2>2. \A d \in Callers : d # Boot => ~Busy(d)' /\ boot'[d].pc # "validate"
    BY <1>1, <1>5 DEF Busy
  <2>3. Boot \notin Posts
    BY LifecycleAssumption
  <2>4. boot'[Boot].key = key /\ boot'[Boot].pc # "validate"
    BY <1>3, <1>5
  <2>5. primary' = key /\ engine' # None /\ notifier' # None
    BY <1>4, <1>6
  <2> HIDE DEF key, new
  <2> QED  BY <1>1, <1>2, <1>7, <2>1, <2>2, <2>3, <2>4, <2>5 DEF Chosen, Callers
<1>12. Served'
  <2>1. \A d \in Callers : Busy(d)' => d = Boot
    BY <1>1, <1>5 DEF Busy
  <2>2. UNCHANGED <<accounts, server, override, home, slipped>>
    BY <1>7 DEF db, past
  <2> HIDE DEF key, set, new
  <2> QED  BY <1>3, <1>5, <2>1, <2>2 DEF Served
<1> QED  BY <1>8, <1>9, <1>10, <1>11, <1>12

LEMMA QuietTyped ==
  Quiet \in [running : Nat, queued : BOOLEAN] /\ Quiet.running <= 1 /\ (Quiet.queued => Quiet.running = 1)
BY DEF Quiet

\* A start of main with an account: the row it leaves and the attempt it begins.
LEMMA MainStarts ==
  ASSUME NEW key \in Keys, NEW row \in Servers \cup {None}, NEW file \in Servers \cup {None}, NEW def \in Servers
  PROVE  LET m == main(key, row, file, def)
         IN  /\ m.row \in Servers \cup {None} /\ (row # None => m.row = row) /\ (m.row = None => file # None)
             /\ m.boot \in [Callers -> BootType] /\ m.boot[Boot].pc = "wallet" /\ m.boot[Boot].key = key
             /\ m.boot[Boot].srv \in Servers /\ m.boot[Boot].from \in {"config", "row"}
             /\ m.boot[Boot].from = "row" => m.boot[Boot].srv = m.row
             /\ \A c \in Callers : c # Boot => m.boot[c] = Off
<1> DEFINE new == backfill(row, file, def)
           set == resolveServerSet(new, file, def)
           m == main(key, row, file, def)
<1>1. new \in Servers \cup {None} /\ (row # None => new = row) /\ (new = None => file # None)
  BY LifecycleAssumption DEF backfill
<1>2. m.row = new /\ m.boot = [c \in Callers |-> IF c = Boot THEN begun(key, set) ELSE Off]
  BY DEF main
<1> HIDE DEF new
<1>3. /\ set.srv \in Servers /\ set.from \in {"config", "row"} /\ (set.from = "row" => set.srv = new)
      /\ begun(key, set) \in BootType /\ begun(key, set).pc = "wallet" /\ begun(key, set).key = key
      /\ begun(key, set).srv = set.srv /\ begun(key, set).from = set.from
  BY <1>1, ResolvesServer
<1> HIDE DEF set, m
<1>4. Boot \in Callers
  BY DEF Callers
<1> QED  BY <1>1, <1>2, <1>3, <1>4, OffTyped DEF m

\* Nothing runs and main has just begun, with an account or without.
JustStarted ==
  /\ TypeOK /\ Turns /\ mode = "setup" /\ live = {} /\ timer = FALSE /\ Nobody /\ Len(accounts) <= 1
  /\ engine = loadAccount /\ notifier = loadAccount /\ primary = loadAccount
  /\ \A c \in Callers : c # Boot \/ accounts = <<>> => boot[c].pc = "off"
  /\ server # None => accounts # <<>>
  /\ accounts # <<>> => /\ boot[Boot].pc = "wallet" /\ boot[Boot].key = loadAccount
                        /\ boot[Boot].srv \in Servers /\ boot[Boot].from \in {"config", "row"}
                        /\ boot[Boot].from = "row" => boot[Boot].srv = server
                        /\ server = None => accounts[1].by = Boot /\ override # None
  /\ \A k \in Keys : home[k] # None => accounts # <<>> /\ k = loadAccount /\ (home[k] = server \/ slipped)

LEMMA FromAStart == JustStarted => LifeInv
<1> SUFFICES ASSUME JustStarted PROVE LifeInv
  OBVIOUS
<1> USE DEF JustStarted
<1>1. Boot \in Callers /\ Boot \notin Posts
  BY LifecycleAssumption DEF Callers
<1>2. CASE accounts = <<>>
  <2>1. server = None /\ (\A c \in Callers : boot[c].pc = "off") /\ \A k \in Keys : home[k] = None
    BY <1>2
  <2>2. \A c \in Callers : ~Busy(c)
    BY <2>1 DEF Busy
  <2>3. OneCaller /\ Owned
    BY <1>1, <2>1 DEF OneCaller, Owned, AllOff, Working, Callers
  <2>4. Chosen /\ Served
    BY <1>2, <2>1, <2>2 DEF Chosen, Served, Callers
  <2> QED  BY <2>3, <2>4 DEF LifeInv
<1>3. CASE accounts # <<>>
  <2>1. loadAccount \in Keys /\ None \notin Keys
    BY <1>3, LoadsKey, LifecycleAssumption
  <2>2. Busy(Boot) /\ \A c \in Callers : c # Boot => ~Busy(c) /\ boot[c].pc # "validate"
    BY <1>3 DEF Busy
  <2>3. OneCaller
    BY <1>1, <1>3 DEF OneCaller, AllOff, Callers
  <2>4. Owned
    <3>1. Upto("wallet") = {}
      BY DEF Upto, Starts
    <3> QED  BY <1>3, <3>1 DEF Owned, Nobody, Working
  <2>5. Chosen
    BY <1>1, <1>3, <2>1, <2>2 DEF Chosen, Callers
  <2>6. Served
    BY <1>3, <2>2 DEF Served
  <2> QED  BY <2>3, <2>4, <2>5, <2>6 DEF LifeInv
<1> QED  BY <1>2, <1>3

LEMMA FromARestart == JustStarted' => LifeInv'
BY FromAStart, PTL

LEMMA LifeRestart ==
  ASSUME LifeInv, Restart
  PROVE  LifeInv'
<1> USE DEF LifeInv
<1> DEFINE m == main(loadAccount, server, override', default')
<1>1. /\ UNCHANGED <<accounts, up, home, slipped, edits>> /\ session' = None /\ mode' = "setup"
      /\ live' = {} /\ timer' = FALSE /\ stray' = "none" /\ Nobody' /\ news' = {}
      /\ \A c \in Callers : rec'[c] = Quiet
      /\ override' \in Servers \cup {None} /\ default' \in Servers
  BY DEF Restart, Nobody
<1>2. (accounts = <<>> <=> loadAccount = None) /\ (accounts # <<>> => loadAccount \in Keys) /\ loadAccount' = loadAccount
  BY <1>1, LoadsKey, LifecycleAssumption DEF loadAccount
<1>3. /\ hold' \in [HandleKinds -> Callers \cup {None}] /\ restarts' \in 0..MaxRestarts
      /\ sock' \in [Callers -> {"off", "connecting", "open", "waiting"}]
      /\ rec' \in [Callers -> [running : Nat, queued : BOOLEAN]]
  <2>1. hold' \in [HandleKinds -> Callers \cup {None}] /\ sock' \in [Callers -> {"off", "connecting", "open", "waiting"}]
    BY DEF Restart
  <2>2. rec' \in [Callers -> [running : Nat, queued : BOOLEAN]]
    BY QuietTyped DEF Restart
  <2>3. restarts' \in 0..MaxRestarts
    BY LifecycleAssumption DEF Restart, TypeOK
  <2> QED  BY <2>1, <2>2, <2>3
<1>4. Turns'
  BY <1>1, QuietTyped DEF Turns
<1>5. Len(accounts') <= 1
  BY <1>1 DEF Chosen
<1>6. JustStarted'
  <2>1. CASE accounts = <<>>
    <3>1. /\ boot' \in [Callers -> BootType] /\ \A c \in Callers : boot'[c].pc = "off"
          /\ engine' = None /\ notifier' = None /\ primary' = None /\ server' = server
      BY <1>2, <2>1, OffTyped DEF Restart
    <3>2. server = None /\ \A k \in Keys : home[k] = None
      BY <2>1 DEF Chosen, Served
    <3>3. TypeOK'
      BY <1>1, <1>3, <3>1 DEF TypeOK, BootType
    <3> QED  BY <1>1, <1>2, <1>4, <1>5, <2>1, <3>1, <3>2, <3>3 DEF JustStarted
  <2>2. CASE accounts # <<>>
    <3>1. server' = m.row /\ boot' = m.boot /\ engine' = loadAccount /\ notifier' = loadAccount /\ primary' = loadAccount
      BY <1>2, <2>2, LifecycleAssumption DEF Restart
    <3>2. server \in Servers \cup {None} /\ loadAccount \in Keys
      BY <1>2, <2>2 DEF TypeOK
    <3>3. /\ m.row \in Servers \cup {None} /\ (server # None => m.row = server) /\ (m.row = None => override' # None)
          /\ m.boot \in [Callers -> BootType] /\ m.boot[Boot].pc = "wallet" /\ m.boot[Boot].key = loadAccount
          /\ m.boot[Boot].srv \in Servers /\ m.boot[Boot].from \in {"config", "row"}
          /\ m.boot[Boot].from = "row" => m.boot[Boot].srv = m.row
          /\ \A c \in Callers : c # Boot => m.boot[c] = Off
      BY <1>1, <3>2, MainStarts
    <3> HIDE DEF m
    <3>4. TypeOK'
      BY <1>1, <1>3, <3>1, <3>2, <3>3 DEF TypeOK, BootType
    <3>5. \A c \in Callers : c # Boot => boot'[c].pc = "off"
      BY <3>1, <3>3, OffTyped
    <3>6. server' = None => accounts[1].by = Boot /\ override' # None
      BY <2>2, <3>1, <3>3 DEF Served
    <3>7. \A k \in Keys : home[k] # None => k = loadAccount /\ (home[k] = server' \/ slipped)
      BY <3>1, <3>3 DEF Chosen, Served
    <3> QED  BY <1>1, <1>2, <1>4, <1>5, <2>2, <3>1, <3>3, <3>4, <3>5, <3>6, <3>7 DEF JustStarted
  <2> QED  BY <2>1, <2>2
<1> QED  BY <1>6, FromARestart

\* config.json changes under a running process.
LEMMA LifeEdit ==
  ASSUME LifeInv, Edit
  PROVE  LifeInv'
<1> USE DEF LifeInv
<1>1. /\ UNCHANGED <<accounts, server, default, up, mode, session, boot, handles, singles, timer, passes, sock, home, restarts>>
      /\ override' \in Servers \cup {None}
      /\ slipped => slipped'
      /\ override' = None /\ accounts # <<>> /\ server = None => slipped'
  BY DEF Edit
<1>2. TypeOK' /\ Turns'
  <2>1. slipped' \in BOOLEAN /\ edits' \in 0..MaxEdits
    BY LifecycleAssumption DEF Edit, TypeOK
  <2> QED  BY <1>1, <2>1 DEF TypeOK, Turns, handles, singles, passes
<1>3. OneCaller' /\ Owned' /\ Chosen'
  BY <1>1, OneCallerKept, OwnedKept, ChosenKept DEF handles, singles
<1>4. Served'
  BY <1>1 DEF Served, Busy
<1> QED  BY <1>2, <1>3, <1>4

\* The steps that touch nothing the invariant is about.
LEMMA LifeRest ==
  ASSUME LifeInv, StrayEnds \/ Flip \/ UNCHANGED vars
  PROVE  LifeInv'
<1> USE DEF LifeInv
<1>1. /\ UNCHANGED <<db, mode, session, boot, handles, singles, timer, rec, news, sock, past>>
      /\ stray' \in {"none", "running", "queued"} /\ up' \in BOOLEAN
  BY DEF StrayEnds, Flip, vars, passes, TypeOK
<1>2. TypeOK' /\ Turns'
  BY <1>1 DEF TypeOK, Turns, db, handles, singles, past
<1>3. OneCaller' /\ Owned' /\ Chosen' /\ Served'
  BY <1>1, OneCallerKept, OwnedKept, ChosenKept, ServedKept DEF db, handles, singles, past, Busy
<1> QED  BY <1>2, <1>3

LEMMA LifeStarts == Init => LifeInv
<1> SUFFICES ASSUME Init PROVE JustStarted
  BY FromAStart
<1>1. /\ override \in Servers \cup {None} /\ default \in Servers /\ Cardinality(Posts) \in Nat
      /\ up \in BOOLEAN /\ mode \in {"setup", "degraded", "ready"} /\ session \in Callers \cup {None}
      /\ timer \in BOOLEAN /\ stray \in {"none", "running", "queued"} /\ slipped \in BOOLEAN
      /\ restarts \in 0..MaxRestarts /\ edits \in 0..MaxEdits
  <2>1. Cardinality(Posts) \in Nat /\ 0 \in 0..MaxRestarts /\ 0 \in 0..MaxEdits /\ Default \in Servers
    BY LifecycleAssumption, FS_CardinalityType
  <2> QED  BY <2>1 DEF Init
<1>2. /\ hold \in [HandleKinds -> Callers \cup {None}] /\ home \in [Keys -> Servers \cup {None}]
      /\ sock \in [Callers -> {"off", "connecting", "open", "waiting"}]
      /\ \A k \in Keys : home[k] = None
  BY DEF Init
<1>3. rec \in [Callers -> [running : Nat, queued : BOOLEAN]] /\ news = {} /\ Turns
  BY QuietTyped DEF Init, Turns
<1>4. mode = "setup" /\ live = {} /\ timer = FALSE /\ Nobody
  BY DEF Init, Nobody
<1>5. CASE Fresh
  <2>1. /\ boot \in [Callers -> BootType] /\ (\A c \in Callers : boot[c].pc = "off") /\ server = None /\ loadAccount = None
        /\ engine = None /\ notifier = None /\ primary = None
    BY <1>5, OffTyped DEF Fresh, loadAccount
  <2>2. accounts = <<>> /\ accounts \in Seq([by : Callers, key : Keys]) /\ Len(accounts) = 0
    BY <1>5 DEF Fresh
  <2>3. TypeOK
    BY <1>1, <1>2, <1>3, <1>4, <2>1, <2>2 DEF TypeOK, BootType
  <2> QED  BY <1>2, <1>3, <1>4, <2>1, <2>2, <2>3 DEF JustStarted
<1>6. CASE Grandfathered
  <2>1. PICK k \in Keys :
          /\ accounts = <<[by |-> Boot, key |-> k]>>
          /\ server = main(k, None, override, default).row /\ boot = main(k, None, override, default).boot
          /\ engine = k /\ notifier = k /\ primary = k
    BY <1>6 DEF Grandfathered
  <2> DEFINE m == main(k, None, override, default)
  <2>2. /\ m.row \in Servers \cup {None} /\ (m.row = None => override # None)
        /\ m.boot \in [Callers -> BootType] /\ m.boot[Boot].pc = "wallet" /\ m.boot[Boot].key = k
        /\ m.boot[Boot].srv \in Servers /\ m.boot[Boot].from \in {"config", "row"}
        /\ m.boot[Boot].from = "row" => m.boot[Boot].srv = m.row
        /\ \A c \in Callers : c # Boot => m.boot[c] = Off
    <3>1. None \in Servers \cup {None} /\ override \in Servers \cup {None} /\ default \in Servers
      BY <1>1
    <3>2. \A row \in Servers \cup {None} :
            LET n == main(k, row, override, default)
            IN  /\ n.row \in Servers \cup {None} /\ (n.row = None => override # None)
                /\ n.boot \in [Callers -> BootType] /\ n.boot[Boot].pc = "wallet" /\ n.boot[Boot].key = k
                /\ n.boot[Boot].srv \in Servers /\ n.boot[Boot].from \in {"config", "row"}
                /\ n.boot[Boot].from = "row" => n.boot[Boot].srv = n.row
                /\ \A c \in Callers : c # Boot => n.boot[c] = Off
      BY <3>1, MainStarts
    <3> QED  BY <3>1, <3>2, Zenon
  <2>3. server = m.row /\ boot = m.boot
    BY <2>1
  <2> HIDE DEF m
  <2>4. /\ accounts \in Seq([by : Callers, key : Keys]) /\ Len(accounts) = 1 /\ accounts # <<>>
        /\ accounts[1].by = Boot /\ accounts[1].key = k
    BY <2>1 DEF Callers
  <2>5. loadAccount = k
    BY <2>4 DEF loadAccount
  <2>6. TypeOK
    BY <1>1, <1>2, <1>3, <1>4, <2>1, <2>2, <2>3, <2>4 DEF TypeOK, BootType
  <2>7. \A c \in Callers : c # Boot => boot[c].pc = "off"
    BY <2>2, <2>3, OffTyped
  <2> QED  BY <1>2, <1>3, <1>4, <2>1, <2>2, <2>3, <2>4, <2>5, <2>6, <2>7 DEF JustStarted
<1> QED  BY <1>5, <1>6 DEF Init

LEMMA LifeInductive ==
  ASSUME OnePost
  PROVE  LifeInv /\ [Next]_vars => LifeInv'
BY LifeAdvance, LifeReady, LifeFail, LifePoke, LifeWs, LifeSetup, LifeValidated, LifeInvalid,
   LifeSetupFails, LifeDegrade, LifeRetryFires, LifeRestart, LifeEdit, LifeRest DEF Next, Steps

-----------------------------------------------------------------------------
LEMMA LifeOrphans == LifeInv => NothingOrphaned
<1> SUFFICES ASSUME LifeInv PROVE NothingOrphaned
  OBVIOUS
<1> USE DEF LifeInv
<1>1. ASSUME NEW k \in Kinds, NEW c \in Callers, <<k, c>> \in live
      PROVE  Busy(c) \/ (mode = "ready" /\ session = c)
  <2>1. CASE \E d \in Callers : boot[d].pc \in Working
    BY <1>1, <2>1 DEF Owned, Busy, Working
  <2>2. CASE \E d \in Callers : boot[d].pc = "unwind"
    BY <1>1, <2>2 DEF Owned, Busy
  <2>3. CASE \A d \in Callers : boot[d].pc \in {"off", "validate"}
    BY <1>1, <2>3 DEF Owned
  <2>4. \A d \in Callers : boot[d].pc \in {"off", "validate", "unwind"} \cup Working
    BY PcsAre DEF TypeOK
  <2> QED  BY <2>1, <2>2, <2>3, <2>4
<1>2. mode = "ready" => /\ (Kinds \ {"funds"}) \X {session} \subseteq live
                        /\ primary = loadAccount /\ engine # None /\ notifier # None
  BY DEF Owned, Chosen
<1> QED  BY <1>1, <1>2 DEF NothingOrphaned

LEMMA LifeRows == LifeInv => RowsTogether
BY DEF LifeInv, Chosen, Served, RowsTogether

LEMMA LifeHome ==
  ASSUME LifeInv, NEW c \in Callers, Ready(c), boot[c].from # "config"
  PROVE  home'[boot[c].key] = boot[c].srv \/ slipped
<1> DEFINE key == boot[c].key
<1>1. Busy(c) /\ key = loadAccount /\ accounts # <<>> /\ (boot[c].srv = server \/ slipped)
  <2>1. Busy(c)
    BY DEF Ready, Busy
  <2> QED  BY <2>1 DEF LifeInv, Chosen, Served
<1>2. key \in Keys
  BY <1>1, LoadsKey DEF LifeInv
<1>3. home[key] # None => home[key] = server \/ slipped
  BY <1>2 DEF LifeInv, Served
<1>4. home'[key] = IF home[key] = None THEN boot[c].srv ELSE home[key]
  BY <1>2 DEF Ready, LifeInv, TypeOK
<1> QED  BY <1>1, <1>3, <1>4

\* With one setup form at a time, for any keys, servers and number of restarts, every state
\* of the bridge coming up is typed and the invariant above holds in it (index.ts: bootReady).
THEOREM LifecycleInvariant ==
  ASSUME OnePost
  PROVE  Spec => [](TypeOK /\ LifeInv)
<1>1. LifeInv => TypeOK /\ LifeInv
  BY DEF LifeInv
<1>2. LifeInv /\ [Next]_vars => LifeInv'
  BY LifeInductive
<1> QED  BY LifeStarts, <1>1, <1>2, PTL DEF Spec

\* A failed bring-up, wherever it fails and however often, leaves nothing running and stops
\* nothing of the session that serves; a ready session runs in full on the account that a
\* restart would load (index.ts: bootReady).
THEOREM NothingIsOrphaned ==
  ASSUME OnePost
  PROVE  Spec => []NothingOrphaned
<1>1. LifeInv /\ [Next]_vars => LifeInv'
  BY LifeInductive
<1> QED  BY LifeStarts, <1>1, LifeOrphans, PTL DEF Spec

\* Account and server row come and go together, and the wallet of a key never comes up, with
\* nothing pinned in config.json, on another server than its first, over any failures, new
\* setups, restarts, releases and edits of config.json, except an account without a row that
\* was unpinned under a running process (web/server.ts: POST /setup; index.ts: main;
\* server_config.ts: resolveServerSet).
THEOREM WalletKeepsItsServer ==
  ASSUME OnePost
  PROVE  Spec => OneServerPerWallet
<1>1. LifeInv /\ [Next]_vars => LifeInv'
  BY LifeInductive
<1>2. LifeInv' => RowsTogether'
  <2>1. LifeInv => RowsTogether
    BY LifeRows
  <2> QED  BY <2>1, PTL
<1>3. LifeInv /\ LifeInv' => /\ RowsTogether'
                             /\ \A c \in Callers : Ready(c) /\ boot[c].from # "config" =>
                                   home'[boot[c].key] = boot[c].srv \/ slipped
  BY <1>2, LifeHome
<1> QED  BY LifeStarts, <1>1, <1>3, PTL DEF Spec, OneServerPerWallet

-----------------------------------------------------------------------------
\* A bring-up never runs two reconcile passes at once, and a poke that no pass has followed
\* yet is remembered by a pass that will run it; with any number of setup forms in flight
\* (index.ts: reconcileReceives).
THEOREM OnePassAtATime == Spec => []Turns
<1>1. Init => RecInv
  BY QuietTyped DEF Init, RecInv, Turns
<1>2. ASSUME RecInv, [Next]_vars
      PROVE  RecInv'
  <2>1. CASE UNCHANGED <<rec, news>>
    BY <1>2, <2>1 DEF RecInv, Turns
  <2>2. ASSUME NEW c \in Callers, PassStep(c)
        PROVE  RecInv'
    BY <1>2, <2>2, PassTurns
  <2>3. ASSUME NEW c \in Callers, NEW n \in {Quiet, reconcileReceives(Quiet)}, rec' = [rec EXCEPT ![c] = n], news' = news \ {c}
        PROVE  RecInv'
    <3>1. n \in [running : Nat, queued : BOOLEAN] /\ n.running <= 1 /\ (n.queued => n.running = 1)
      BY <2>3, QuietTyped, PokeTurns
    <3> QED  BY <1>2, <2>3, <3>1 DEF RecInv, Turns
  <2>4. CASE Restart
    <3>1. rec' = [c \in Callers |-> Quiet] /\ news' = {}
      BY <2>4 DEF Restart
    <3> QED  BY <3>1, QuietTyped DEF RecInv, Turns
  <2>5. \/ UNCHANGED <<rec, news>> \/ Restart
        \/ \E c \in Callers : \/ PassStep(c)
                              \/ \E n \in {Quiet, reconcileReceives(Quiet)} : rec' = [rec EXCEPT ![c] = n] /\ news' = news \ {c}
    BY <1>2 DEF Next, Steps, vars, passes, PassStep, Advance, Ready, Fail, Poke, PassEnds, WsOpen, WsClose, WsReconnect,
       WsStep, Setup, Validated, Invalid, SetupFails, Degrade, RetryFires, Edit, StrayEnds, Flip
  <2> QED  BY <2>1, <2>2, <2>3, <2>4, <2>5
<1>3. RecInv => Turns
  BY DEF RecInv
<1> QED  BY <1>1, <1>2, <1>3, PTL DEF Spec
=============================================================================
