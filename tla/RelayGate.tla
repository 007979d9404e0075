------------------------------ MODULE RelayGate ------------------------------
(***************************************************************************)
(* The gate in front of one relay: who may open a socket to it and when.   *)
(* Relays are independent, so one is enough.  Time is counted in retry     *)
(* ticks (5 s) and only as distances: how long the relay stays blocked,    *)
(* how long the gate has known the socket to be up.                        *)
(***************************************************************************)
EXTENDS Naturals, FiniteSets

CONSTANTS
  Tickers,     \* callers that ask at every tick and report both ways: subs, watchdog
  Publishers,  \* callers that ask when they like and report only failures
  Base,        \* BASE_DELAY_MS in ticks
  MaxDelay,    \* MAX_DELAY_MS in ticks
  Stable,      \* STABLE_AFTER_MS in ticks
  FailCap      \* bound on the failure count: the delay has reached MaxDelay

ASSUME RelayGateAssumption ==
  /\ Base \in Nat \ {0} /\ MaxDelay \in Nat /\ Base <= MaxDelay
  /\ Stable \in Nat \ {0} /\ FailCap \in Nat \ {0} /\ Base * 2^(FailCap - 1) >= MaxDelay

Callers == Tickers \cup Publishers

VARIABLES
  failures, wait, upSince,  \* RelayState: wait is blockedUntil - now, or 0
  sock,      \* the pool's socket
  joined,    \* callers that wait for the attempt under way
  reports,   \* callers that have yet to report its failure
  asked,     \* tickers that have asked in this tick
  bad,       \* openings in a row that failed or were lost early, as far as reported
  rest       \* ticks since the last of them ended
gvars == <<failures, wait, upSince, sock, joined, reports, asked, bad, rest>>

Down == Stable + 1   \* upSince: no connection
LessOf(m, n) == IF m < n THEN m ELSE n
Longest == (6 * MaxDelay + 4) \div 5

GateTypeOK ==
  /\ failures \in 0..FailCap /\ wait \in 0..Longest /\ upSince \in 0..Down
  /\ sock \in {"none", "opening", "open"} /\ joined \subseteq Callers /\ reports \subseteq Callers
  /\ asked \subseteq Tickers /\ bad \in 0..FailCap /\ rest \in 0..Longest

GateInit ==
  /\ failures = 0 /\ wait = 0 /\ upSince = Down /\ sock = "none"
  /\ joined = {} /\ reports = {} /\ asked = {} /\ bad = 0 /\ rest = Longest

-----------------------------------------------------------------------------
\* penalize: the delay after n failures, with a fifth of jitter either way,
\* rounded up to ticks.
Backoff(n) == LessOf(Base * 2^(n - 1), MaxDelay)
Jittered(d) == ((4 * d + 4) \div 5)..((6 * d + 4) \div 5)
Counted(n) == LessOf(n + 1, FailCap)

\* Mutant: a lost connection clears the count, however short it was.
lookForgiving ==
  IF sock = "open"
  THEN /\ upSince' = IF upSince = Down THEN 0 ELSE upSince
       /\ UNCHANGED <<failures, wait>>
  ELSE /\ upSince' = Down
       /\ IF upSince # Down THEN failures' = 0 /\ wait' = 0 ELSE UNCHANGED <<failures, wait>>

\* The bookkeeping of allow: the gate may learn here that the socket is up, that
\* it has been up for long, or that it is gone.
look ==
  IF sock = "open"
  THEN /\ upSince' = IF upSince = Down THEN 0 ELSE upSince
       /\ failures' = IF upSince # Down /\ upSince >= Stable THEN 0 ELSE failures
       /\ UNCHANGED wait
  ELSE /\ upSince' = Down
       /\ IF upSince = Down THEN UNCHANGED <<failures, wait>>
          ELSE IF upSince >= Stable THEN failures' = 0 /\ wait' = 0
          ELSE /\ failures' = Counted(failures)
               /\ wait' \in Jittered(Backoff(failures'))

\* allow, and what the pool does when it is let through: a new attempt, or one
\* more caller of the attempt under way.
Ask(c) ==
  /\ reports = {} /\ c \notin joined
  /\ c \in Tickers => c \notin asked /\ sock # "open"
  /\ asked' = IF c \in Tickers THEN asked \cup {c} ELSE asked
  /\ look
  /\ IF wait' = 0 /\ sock # "open"
     THEN sock' = "opening" /\ joined' = joined \cup {c}
     ELSE UNCHANGED <<sock, joined>>
  /\ UNCHANGED <<reports, bad, rest>>

\* The attempt succeeds; succeeded is called by the tickers only.
Opens ==
  /\ sock = "opening" /\ sock' = "open" /\ joined' = {}
  /\ upSince' = IF joined \cap Tickers # {} /\ upSince = Down THEN 0 ELSE upSince
  /\ UNCHANGED <<failures, wait, reports, asked, bad, rest>>

\* The attempt fails: everyone who joined it will say so.
Refused ==
  /\ sock = "opening" /\ sock' = "none" /\ reports' = joined /\ joined' = {}
  /\ bad' = Counted(bad) /\ rest' = 0
  /\ UNCHANGED <<failures, wait, upSince, asked>>

\* failed: counted once.
failed(c) ==
  /\ c \in reports /\ reports' = reports \ {c}
  /\ upSince' = Down
  /\ IF wait > 0 THEN UNCHANGED <<failures, wait>>
     ELSE failures' = Counted(failures) /\ wait' \in Jittered(Backoff(failures'))
  /\ UNCHANGED <<sock, joined, asked, bad, rest>>

\* The socket is lost.  Early, as far as the gate knew it was up, is a bad
\* opening; one that lived to within a tick of Stable may be forgiven.
Lost ==
  /\ sock = "open" /\ sock' = "none"
  /\ CASE upSince = Down -> UNCHANGED <<bad, rest>>
       [] upSince # Down /\ upSince + 1 < Stable -> bad' = Counted(bad) /\ rest' = 0
       [] OTHER -> bad' = 0 /\ UNCHANGED rest
  /\ UNCHANGED <<failures, wait, upSince, joined, reports, asked>>

\* A tick: every ticker without a socket has asked, attempts have timed out.
GateTick ==
  /\ reports = {} /\ sock # "opening" /\ (sock = "none" => asked = Tickers)
  /\ wait' = IF wait = 0 THEN 0 ELSE wait - 1
  /\ upSince' = IF upSince = Down THEN Down ELSE LessOf(upSince + 1, Stable)
  /\ rest' = LessOf(rest + 1, Longest)
  /\ bad' = IF sock = "open" /\ upSince # Down /\ upSince + 1 >= Stable THEN 0 ELSE bad
  /\ asked' = {}
  /\ UNCHANGED <<failures, sock, joined, reports>>

GateNext == (\E c \in Callers : Ask(c) \/ failed(c)) \/ Opens \/ Refused \/ Lost \/ GateTick
GateSpec == GateInit /\ [][GateNext]_gvars

-----------------------------------------------------------------------------
\* A relay that refuses or kicks is left alone longer and longer (relay_gate.ts:83):
\* after n bad openings in a row the next socket is not opened before the n-th
\* backoff, less the jitter, has passed, however many callers ask and report.
LeftAlone ==
  [][sock = "none" /\ sock' = "opening" /\ bad > 0 => rest >= (4 * Backoff(bad) + 4) \div 5]_gvars
=============================================================================
