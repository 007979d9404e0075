------------------------------ MODULE Lifecycle ------------------------------
(***************************************************************************)
(* How the bridge comes up: the setup page, the bring-up bootReady with    *)
(* its unwinding, the degraded retry loop, restarts, and the reconcile     *)
(* passes and the boltz websocket that a bring-up leaves running.          *)
(* bootReady is split at its awaits.  What a subsystem does is not here:   *)
(* only who started it, who holds its handle and whether it still runs.    *)
(***************************************************************************)
EXTENDS Naturals, Sequences, FiniteSets, SequencesExt

CONSTANTS
  Keys,         \* account keys
  Servers,      \* server sets (Ark and Boltz)
  Default,      \* the one of defaults.ts in the first release
  None,         \* no key, no server, nobody
  Boot,         \* the boot path: bootReadyOrDegrade and its retries
  Posts,        \* setup forms that may be in flight at once
  MaxRestarts,  \* bound on restarts
  MaxEdits      \* bound on edits of config.json while the process runs

ASSUME LifecycleAssumption ==
  /\ Default \in Servers /\ None \notin Keys \cup Servers \cup Posts \cup {Boot}
  /\ Boot \notin Posts /\ IsFiniteSet(Posts) /\ MaxRestarts \in Nat /\ MaxEdits \in Nat

Callers == Posts \cup {Boot}

\* bootReady's awaits in order, and what is started when each one returns: the
\* undo stack unwinds the first four kinds, the others are module-level handles.
Awaits == <<"wallet", "balance", "swaps", "fees", "nostr", "proof", "funds", "board", "fetch">>
Starts ==
  [wallet |-> {"wallet"}, balance |-> {}, swaps |-> {"swaps"}, fees |-> {},
   nostr |-> {"nostr", "offers", "recv", "boarding", "ws", "refresh"},
   proof |-> {"proof"}, funds |-> {"funds"}, board |-> {}, fetch |-> {}]
UndoKinds == {"wallet", "swaps", "nostr", "offers"}
HandleKinds == {"recv", "boarding", "ws", "refresh", "proof", "funds"}
Kinds == UndoKinds \cup HandleKinds

VARIABLES
  accounts,   \* the accounts table, by id: who wrote the row and its key
  server,     \* the bridge_server row
  override,   \* data/config.json
  default,    \* defaults.ts of the release that runs
  up,         \* the Ark and Boltz servers answer
  mode,       \* appState.current.mode
  session,    \* whose bring-up appState.current holds
  boot,       \* [Callers -> the call of bootReady under way]
  hold,       \* the module-level handles: [HandleKinds -> whose]
  live,       \* subsystems that run: <<kind, who started it>>
  engine, notifier, primary,  \* the key of the exit engine, the notifier, the outbox
  timer,      \* bootRetryTimer
  rec,        \* [Callers -> the reconcile passes of its bring-up]
  stray,      \* a pass of a failed bring-up that still runs
  sock,       \* [Callers -> the boltz websocket of its bring-up]
  news,       \* history: bring-ups poked since their last pass began
  home,       \* history: where the wallet of a key was first ready with nothing pinned
  slipped,    \* history: an account without a row was unpinned while the process ran
  restarts, edits

db == <<accounts, server, override, default>>
handles == <<hold, live>>
singles == <<engine, notifier, primary>>
passes == <<rec, stray, news>>
past == <<home, slipped, restarts, edits>>
vars == <<db, up, mode, session, boot, handles, singles, timer, passes, sock, past>>

Sources == {"config", "row", "defaults", None}
Pcs == {"off", "validate", "unwind"} \cup {Awaits[i] : i \in 1..Len(Awaits)}
Off == [pc |-> "off", key |-> None, srv |-> None, from |-> None]

TypeOK ==
  /\ accounts \in Seq([by : Callers, key : Keys]) /\ Len(accounts) <= 1 + Cardinality(Posts)
  /\ server \in Servers \cup {None} /\ override \in Servers \cup {None} /\ default \in Servers
  /\ up \in BOOLEAN /\ mode \in {"setup", "degraded", "ready"} /\ session \in Callers \cup {None}
  /\ boot \in [Callers -> [pc : Pcs, key : Keys \cup {None}, srv : Servers \cup {None}, from : Sources]]
  /\ hold \in [HandleKinds -> Callers \cup {None}] /\ live \subseteq Kinds \X Callers
  /\ {engine, notifier, primary} \subseteq Keys \cup {None}
  /\ timer \in BOOLEAN
  /\ rec \in [Callers -> [running : Nat, queued : BOOLEAN]]
  /\ stray \in {"none", "running", "queued"}
  /\ sock \in [Callers -> {"off", "connecting", "open", "waiting"}]
  /\ news \subseteq Callers /\ home \in [Keys -> Servers \cup {None}] /\ slipped \in BOOLEAN
  /\ restarts \in 0..MaxRestarts /\ edits \in 0..MaxEdits

Quiet == [running |-> 0, queued |-> FALSE]

-----------------------------------------------------------------------------
\* The single row of the chosen servers.

\* resolveServerSet: config.json, read anew every time, then the row, then the
\* defaults.
resolveServerSet(row, file, def) ==
  IF file # None THEN [srv |-> file, from |-> "config"]
  ELSE IF row # None THEN [srv |-> row, from |-> "row"] ELSE [srv |-> def, from |-> "defaults"]

\* loadAccount: the first row by id.
loadAccount == IF accounts = <<>> THEN None ELSE accounts[1].key

-----------------------------------------------------------------------------
\* bootReady.

\* ensureExitEngine, ensureNotifier: created once in a process, with the key of
\* the first attempt.
ensure(old, key) == IF old = None THEN key ELSE old

\* The call up to its first await.
begun(key, set) == [pc |-> "wallet", key |-> key, srv |-> set.srv, from |-> set.from]
EnterBoot(c, key, row) ==
  /\ boot' = [boot EXCEPT ![c] = begun(key, resolveServerSet(row, override, default))]
  /\ primary' = key
  /\ engine' = ensure(engine, key) /\ notifier' = ensure(notifier, key)

NextAwait(pc) == CHOOSE s \in Pcs : \E i \in 1..(Len(Awaits) - 1) : Awaits[i] = pc /\ Awaits[i + 1] = s

\* An await returns and its subsystems start.  The handles of an earlier caller
\* are overwritten.  The funds subscription is best effort.
Started(c, kinds) ==
  /\ live' = live \cup (kinds \X {c})
  /\ hold' = [k \in HandleKinds |-> IF k \in kinds THEN c ELSE hold[k]]

\* Mutant: a poke starts a pass of its own.
reconcileAtOnce(r) == [r EXCEPT !.running = r.running + 1]

\* reconcileReceives: one pass at a time per bring-up, and one more remembered.
reconcileReceives(r) ==
  IF r.running > 0 THEN [r EXCEPT !.queued = TRUE] ELSE [r EXCEPT !.running = 1]

Advance(c) ==
  /\ boot[c].pc \in {Awaits[i] : i \in 1..(Len(Awaits) - 1)}
  /\ \E kinds \in {Starts[boot[c].pc]} \cup (IF boot[c].pc = "funds" THEN {{}} ELSE {}) : Started(c, kinds)
  /\ boot' = [boot EXCEPT ![c].pc = NextAwait(boot[c].pc)]
  /\ IF boot[c].pc = "nostr"
     THEN /\ rec' = [rec EXCEPT ![c] = reconcileReceives(Quiet)]
          /\ news' = news \ {c}
          /\ sock' = [sock EXCEPT ![c] = "connecting"]
     ELSE UNCHANGED <<rec, news, sock>>
  /\ UNCHANGED <<db, up, mode, session, singles, timer, stray, past>>

\* The last await returns (the prefetch is best effort): ready.
Ready(c) ==
  /\ boot[c].pc = "fetch"
  /\ boot' = [boot EXCEPT ![c] = Off]
  /\ mode' = "ready" /\ session' = c
  /\ home' = [home EXCEPT ![boot[c].key] = IF @ = None /\ boot[c].from # "config" THEN boot[c].srv ELSE @]
  /\ UNCHANGED <<db, up, handles, singles, timer, passes, sock, slipped, restarts, edits>>

\* Mutant: the newest interval is forgotten.
stopHandlesButOne(c) == live' = live \ {<<k, hold[k]>> : k \in HandleKinds \ {"refresh"}}

\* The first, synchronous half of the catch block: whatever the handles hold is
\* stopped.  A running pass is not.
stopHandles(c) == live' = live \ {<<k, hold[k]>> : k \in HandleKinds}

Fail(c) ==
  /\ ~up /\ boot[c].pc \in {"wallet", "balance", "swaps", "fees", "nostr", "proof", "board"}
  /\ stopHandles(c)
  /\ sock' = [d \in Callers |-> IF hold["ws"] = d THEN "off" ELSE sock[d]]
  /\ hold' = [k \in HandleKinds |-> None]
  /\ boot' = [boot EXCEPT ![c].pc = "unwind"]
  /\ stray' = IF rec[c].queued THEN "queued" ELSE IF rec[c].running > 0 /\ stray = "none" THEN "running" ELSE stray
  /\ rec' = [rec EXCEPT ![c] = Quiet] /\ news' = news \ {c}
  /\ UNCHANGED <<db, up, mode, session, singles, timer, past>>

\* The undo stack, in reverse order.
unwound(c) == live \ (UndoKinds \X {c})

-----------------------------------------------------------------------------
\* The boot path.

\* Mutant: the retry is armed only on the way into degraded mode.
DegradeOnce ==
  /\ boot[Boot].pc = "unwind"
  /\ live' = unwound(Boot)
  /\ boot' = [boot EXCEPT ![Boot].pc = "off"]
  /\ mode' = "degraded" /\ timer' = (mode # "degraded")
  /\ UNCHANGED <<db, up, session, hold, singles, passes, sock, past>>

\* bootReadyOrDegrade's catch: degraded, and the retry armed.
Degrade ==
  /\ boot[Boot].pc = "unwind"
  /\ live' = unwound(Boot)
  /\ boot' = [boot EXCEPT ![Boot].pc = "off"]
  /\ mode' = "degraded" /\ timer' = TRUE
  /\ UNCHANGED <<db, up, session, hold, singles, passes, sock, past>>

RetryFires ==
  /\ timer /\ timer' = FALSE
  /\ EnterBoot(Boot, boot[Boot].key, server)
  /\ UNCHANGED <<db, up, mode, session, handles, passes, sock, past>>

\* Mutants: the row is written anew at every start; or never.
backfillAlways(row, file, def) == def
backfillNever(row, file, def) == row

\* A database with an account and no row is frozen on the defaults, unless
\* config.json pins the servers.
backfill(row, file, def) == IF row = None /\ file = None THEN def ELSE row

\* main with an account: the row, the exit engine and the notifier, the first attempt.
main(key, row, file, def) ==
  [row |-> backfill(row, file, def),
   boot |-> [c \in Callers |-> IF c = Boot THEN begun(key, resolveServerSet(backfill(row, file, def), file, def)) ELSE Off]]

\* shutdown or a crash, and the next start of main: nothing volatile is left, the
\* release may be a new one and config.json another.
Restart ==
  /\ restarts < MaxRestarts /\ restarts' = restarts + 1
  /\ override' \in Servers \cup {None} /\ default' \in Servers
  /\ session' = None /\ mode' = "setup"
  /\ hold' = [k \in HandleKinds |-> None] /\ live' = {} /\ timer' = FALSE
  /\ rec' = [c \in Callers |-> Quiet] /\ stray' = "none" /\ news' = {} /\ sock' = [c \in Callers |-> "off"]
  /\ IF loadAccount = None
     THEN /\ boot' = [c \in Callers |-> Off]
          /\ engine' = None /\ notifier' = None /\ primary' = None
          /\ UNCHANGED server
     ELSE /\ server' = main(loadAccount, server, override', default').row
          /\ boot' = main(loadAccount, server, override', default').boot
          /\ engine' = loadAccount /\ notifier' = loadAccount /\ primary' = loadAccount
  /\ UNCHANGED <<accounts, up, home, slipped, edits>>

\* The operator edits config.json under a running process.
Edit ==
  /\ edits < MaxEdits /\ edits' = edits + 1
  /\ override' \in (Servers \cup {None}) \ {override}
  /\ slipped' = (slipped \/ (override' = None /\ accounts # <<>> /\ server = None))
  /\ UNCHANGED <<accounts, server, default, up, mode, session, boot, handles, singles, timer, passes, sock, home, restarts>>

\* The first start of this version: on an empty database, or on an old one that has
\* an account and no row.
Fresh == accounts = <<>> /\ server = None /\ boot = [c \in Callers |-> Off] /\ engine = None /\ notifier = None /\ primary = None
Grandfathered ==
  \E k \in Keys :
    /\ accounts = <<[by |-> Boot, key |-> k]>>
    /\ server = main(k, None, override, default).row /\ boot = main(k, None, override, default).boot
    /\ engine = k /\ notifier = k /\ primary = k

Init ==
  /\ override \in Servers \cup {None} /\ default = Default
  /\ Fresh \/ Grandfathered
  /\ up = TRUE /\ mode = "setup" /\ session = None
  /\ hold = [k \in HandleKinds |-> None] /\ live = {}
  /\ timer = FALSE /\ rec = [c \in Callers |-> Quiet] /\ stray = "none" /\ news = {}
  /\ sock = [c \in Callers |-> "off"]
  /\ home = [k \in Keys |-> None] /\ slipped = FALSE /\ restarts = 0 /\ edits = 0

-----------------------------------------------------------------------------
\* The setup page.  The web server answers only after the first boot attempt.

Serving == mode # "setup" \/ boot[Boot].pc = "off"

\* POST /setup up to the validation of the servers.
Setup(p, key, s) ==
  /\ Serving /\ mode = "setup" /\ boot[p].pc = "off"
  /\ boot' = [boot EXCEPT ![p] = [pc |-> "validate", key |-> key, srv |-> s, from |-> None]]
  /\ UNCHANGED <<db, up, mode, session, handles, singles, timer, passes, sock, past>>

\* validateServerSet answers: both rows are written and the bring-up begins.
Validated(p) ==
  /\ up /\ boot[p].pc = "validate"
  /\ server' = boot[p].srv
  /\ accounts' = Append(accounts, [by |-> p, key |-> boot[p].key])
  /\ EnterBoot(p, boot[p].key, server')
  /\ UNCHANGED <<override, default, up, mode, session, handles, timer, passes, sock, past>>

Invalid(p) ==
  /\ ~up /\ boot[p].pc = "validate"
  /\ boot' = [boot EXCEPT ![p] = Off]
  /\ UNCHANGED <<db, up, mode, session, handles, singles, timer, passes, sock, past>>

\* The row that p wrote, by its id.
deleteAccount(p) == \E i \in DOMAIN accounts : accounts[i].by = p /\ accounts' = RemoveAt(accounts, i)

\* Mutant: the server row is left.
rollbackAccountOnly(p) == deleteAccount(p) /\ UNCHANGED server

\* A failed bring-up takes both rows back.
rollback(p) == deleteAccount(p) /\ server' = None

SetupFails(p) ==
  /\ boot[p].pc = "unwind"
  /\ live' = unwound(p)
  /\ boot' = [boot EXCEPT ![p] = Off]
  /\ rollback(p)
  /\ UNCHANGED <<override, default, up, mode, session, hold, singles, timer, passes, sock, past>>

-----------------------------------------------------------------------------
\* What a bring-up leaves running.

\* The 30 s interval or a message of the websocket.
Poke(c) ==
  /\ \/ <<"recv", c>> \in live
     \/ <<"ws", c>> \in live /\ sock[c] = "open"
  /\ rec' = [rec EXCEPT ![c] = reconcileReceives(rec[c])]
  /\ news' = IF rec'[c].running > rec[c].running THEN news \ {c} ELSE news \cup {c}
  /\ UNCHANGED <<db, up, mode, session, boot, handles, singles, timer, stray, sock, past>>

\* Mutant: the flag is cleared and nothing runs.
passDoneNoRerun(r) == [running |-> r.running - 1, queued |-> FALSE]

\* The finally of a pass: the trailing rerun.
passDone(r) == IF r.queued THEN [running |-> 1, queued |-> FALSE] ELSE [r EXCEPT !.running = r.running - 1]

PassEnds(c) ==
  /\ rec[c].running > 0
  /\ rec' = [rec EXCEPT ![c] = passDone(rec[c])]
  /\ news' = IF rec'[c].running < rec[c].running THEN news ELSE news \ {c}
  /\ UNCHANGED <<db, up, mode, session, boot, handles, singles, timer, stray, sock, past>>

StrayEnds ==
  /\ stray # "none"
  /\ stray' = IF stray = "queued" THEN "running" ELSE "none"
  /\ UNCHANGED <<db, up, mode, session, boot, handles, singles, timer, rec, news, sock, past>>

\* boltz_ws: connect, open, close, the reconnect timer.
WsStep(c, from, to) ==
  /\ <<"ws", c>> \in live /\ sock[c] = from
  /\ sock' = [sock EXCEPT ![c] = to]
  /\ UNCHANGED <<db, up, mode, session, boot, handles, singles, timer, passes, past>>

WsOpen(c) == WsStep(c, "connecting", "open")
WsClose(c) == ~up /\ (WsStep(c, "open", "waiting") \/ WsStep(c, "connecting", "waiting"))
WsReconnect(c) == WsStep(c, "waiting", "connecting")

\* The servers go away and come back.
Flip ==
  /\ up' = ~up
  /\ UNCHANGED <<db, mode, session, boot, handles, singles, timer, passes, sock, past>>

\* Every step but a form being sent.
Steps ==
  \/ \E c \in Callers : Advance(c) \/ Ready(c) \/ Fail(c)
                        \/ Poke(c) \/ PassEnds(c) \/ WsOpen(c) \/ WsClose(c) \/ WsReconnect(c)
  \/ \E p \in Posts : Validated(p) \/ Invalid(p) \/ SetupFails(p)
  \/ Degrade \/ RetryFires \/ Restart \/ Edit \/ StrayEnds \/ Flip

Next == Steps \/ \E p \in Posts, k \in Keys, s \in Servers : Setup(p, k, s)

Spec == Init /\ [][Next]_vars

\* The event loop runs what is ready, timers fire, a pass ends, and a setup form
\* in flight is answered.  Nothing obliges the servers.
Fairness ==
  /\ \A c \in Callers : WF_vars(Advance(c)) /\ WF_vars(Ready(c)) /\ WF_vars(PassEnds(c))
                        /\ WF_vars(WsOpen(c)) /\ WF_vars(WsReconnect(c))
  /\ \A p \in Posts : WF_vars(Validated(p)) /\ WF_vars(Invalid(p)) /\ WF_vars(SetupFails(p))
  /\ WF_vars(Degrade) /\ WF_vars(RetryFires) /\ WF_vars(StrayEnds)

LiveSpec == Spec /\ Fairness

-----------------------------------------------------------------------------
\* Properties.

Busy(c) == boot[c].pc \notin {"off", "validate"}

\* Whatever runs belongs to a bring-up under way or to the session that serves,
\* and a ready session runs in full (the funds push is best effort): a failed
\* attempt of bootReady leaves nothing behind (index.ts:660) and stops nothing
\* of somebody else's.  It serves the account a restart would load; the exit
\* engine and the notifier are there, if with the key of an abandoned setup.
NothingOrphaned ==
  /\ \A k \in Kinds, c \in Callers : <<k, c>> \in live => Busy(c) \/ (mode = "ready" /\ session = c)
  /\ mode = "ready" => /\ (Kinds \ {"funds"}) \X {session} \subseteq live
                       /\ primary = loadAccount /\ engine # None /\ notifier # None

\* The account and its servers are chosen together and rolled back together
\* (web/server.ts:436): outside a bring-up there is no row without an account, only
\* an account older than the table may lack one, and the setup page is served
\* exactly while there is no account.
RowsTogether ==
  (\A c \in Callers : ~Busy(c)) =>
    /\ server # None => accounts # <<>>
    /\ server = None /\ accounts # <<>> => accounts[1].by = Boot
    /\ mode = "setup" <=> accounts = <<>>

\* No step leaves one row without the other, and the wallet of a key never comes
\* up, with nothing pinned in config.json, on another server than the one it first
\* did, whatever fails, is set up again, restarts, is pinned and unpinned or
\* changes its defaults (web/server.ts:436, index.ts:747).  Not so for an account
\* without a row that is unpinned under a running process: the row is backfilled
\* at the next start only, from the defaults of that release.
OneServerPerWallet ==
  [][/\ RowsTogether'
     /\ \A c \in Callers : Ready(c) /\ boot[c].from # "config" => home'[boot[c].key] = boot[c].srv \/ slipped]_vars

\* A bring-up never runs two passes at once (index.ts:421), and a poke is followed
\* by a pass that begins after it.
PassesTakeTurns ==
  \A c \in Callers : [](rec[c].running <= 1 /\ (c \in news => <>(c \notin news)))

\* With the servers back for good, a bridge with an account ends up ready
\* (index.ts:690): the retry loop never gives up.
EndsUpReady == <>[]up => []<>(accounts = <<>> \/ mode = "ready")
=============================================================================
