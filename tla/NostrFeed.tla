------------------------------ MODULE NostrFeed ------------------------------
(***************************************************************************)
(* How the requests of one NWC connection reach the handler: one           *)
(* subscription per relay that dies and is issued again with a window into *)
(* the past, a shared bounded memory of seen ids, the table of processed   *)
(* events, registration and revocation, and restarts.  The relay gate      *)
(* (module RelayGate) appears as an attach that is refused.  Time is       *)
(* counted in retry ticks and only as ages.                                *)
(***************************************************************************)
EXTENDS Naturals, Sequences, FiniteSets, SequencesExt

CONSTANTS
  Relays,
  Requests,     \* requests whose delivery is followed
  Other,        \* any other request of the connection
  Skew,         \* RESUME_SKEW_SEC in ticks
  Lookback,     \* MAX_RESUME_LOOKBACK_SEC in ticks
  SeenMax,      \* SEEN_IDS_MAX
  Silence,      \* ticks before the ping notices a dead socket
  MaxCrashes    \* bound on restarts

\* The ping notices a dead socket in 49 s, the timer in 5 more: within the skew.
ASSUME NostrFeedAssumption ==
  /\ Other \notin Requests /\ SeenMax \in Nat \ {0} /\ MaxCrashes \in Nat
  /\ {Skew, Lookback, Silence} \subseteq Nat /\ Silence + 1 <= Skew /\ Skew <= Lookback

VARIABLES
  conn,      \* the connection row
  reg,       \* its registration awaits the info event
  subbed,    \* the service holds an open PersistentSub for it
  age,       \* [Requests -> age of the request, or Unborn]
  stored,    \* [Relays -> requests it has]
  entry,     \* [Relays -> RelayEntry]
  link,      \* [Relays -> the REQ of the current attach]
  hush,      \* [Relays -> ticks since the socket fell silent]
  wire,      \* [Relays -> requests on their way to us]
  seen,      \* seenIds, in insertion order
  handler,   \* [Requests -> number of handlers running]
  processed, \* processed_events
  got,       \* requests received in this life
  mute,      \* relays that took a resuming REQ in this life and never answered it in full
  latest,    \* the last ids let through, as many as the memory is sure to hold
  crashes

feed == <<age, stored, wire>>
row == <<conn, reg, subbed>>
lines == <<entry, link, hush>>
served == <<seen, handler, processed, got, latest>>
fvars == <<row, feed, lines, served, mute, crashes>>

Unborn == Lookback + 2
Older(n) == IF n > Lookback THEN n ELSE n + 1
Fresh == Lookback + 1  \* deadSinceMs = null

FeedTypeOK ==
  /\ conn \in {"none", "active", "revoked"} /\ reg \in BOOLEAN /\ subbed \in BOOLEAN
  /\ age \in [Requests -> 0..Unborn] /\ stored \in [Relays -> SUBSET Requests]
  /\ entry \in [Relays -> [alive : BOOLEAN, dead : 0..Fresh]]
  /\ link \in [Relays -> {"none", "opening", "open", "silent"}] /\ hush \in [Relays -> 0..Silence]
  /\ wire \in [Relays -> SUBSET Requests]
  /\ seen \in Seq(Requests \cup {Other}) /\ Len(seen) <= SeenMax
  /\ handler \in [Requests -> Nat] /\ processed \subseteq Requests /\ got \subseteq Requests
  /\ latest \in Seq(Requests \cup {Other}) /\ Len(latest) <= SeenMax \div 2 /\ mute \subseteq Relays /\ crashes \in 0..MaxCrashes

Detached == [alive |-> FALSE, dead |-> Fresh]

FeedInit ==
  /\ conn = "none" /\ reg = FALSE /\ subbed = FALSE
  /\ age = [q \in Requests |-> Unborn] /\ stored = [r \in Relays |-> {}]
  /\ entry = [r \in Relays |-> Detached] /\ link = [r \in Relays |-> "none"] /\ hush = [r \in Relays |-> 0]
  /\ wire = [r \in Relays |-> {}] /\ seen = <<>>
  /\ handler = [q \in Requests |-> 0] /\ processed = {} /\ got = {}
  /\ mute = {} /\ latest = <<>> /\ crashes = 0

-----------------------------------------------------------------------------
\* PersistentSub.

\* Mutant: no skew.
windowNoSkew(dead) == IF dead = Fresh THEN 0 ELSE IF dead < Lookback THEN dead ELSE Lookback

\* How far back a REQ asks: now at first, then the death less the skew, capped.
window(dead) == IF dead = Fresh THEN 0 ELSE IF dead + Skew < Lookback THEN dead + Skew ELSE Lookback

attach(e) == [e EXCEPT !.alive = TRUE]

\* onclose of the current attach; the first death of a cycle is remembered.
onclose(e) == [e EXCEPT !.alive = FALSE, !.dead = IF e.dead = Fresh THEN 0 ELSE e.dead]

Closed(r) ==
  /\ entry' = [entry EXCEPT ![r] = onclose(entry[r])]
  /\ link' = [link EXCEPT ![r] = "none"] /\ hush' = [hush EXCEPT ![r] = 0]
  /\ wire' = [wire EXCEPT ![r] = {}]

\* The gate refuses the attach, the connection fails, or the relay drops it.
Drop(r) ==
  /\ subbed /\ link[r] \in {"opening", "open"}
  /\ Closed(r)
  /\ UNCHANGED <<row, age, stored, served, mute, crashes>>

\* The ping notices a socket that has gone silent.
Notice(r) ==
  /\ subbed /\ link[r] = "silent"
  /\ Closed(r)
  /\ UNCHANGED <<row, age, stored, served, mute, crashes>>

\* Mutant: no serial guard.
latecloseUnguarded(e) == onclose(e)

\* The serial guard: an attach that was replaced reports its end once more.
lateclose(e) == e

LateClose(r) ==
  /\ subbed /\ link[r] # "none"
  /\ entry' = [entry EXCEPT ![r] = lateclose(entry[r])]
  /\ UNCHANGED <<row, feed, link, hush, served, mute, crashes>>

\* The REQ reaches the relay, which sends what it has stored since then.
Open(r) ==
  /\ subbed /\ link[r] = "opening"
  /\ link' = [link EXCEPT ![r] = "open"]
  /\ wire' = [wire EXCEPT ![r] = {q \in stored[r] : age[q] <= window(entry[r].dead)}]
  /\ UNCHANGED <<row, age, stored, entry, hush, served, mute, crashes>>

\* The socket goes silent; as a rule after a resuming REQ was answered.
Silent(r) ==
  /\ subbed /\ link[r] \in {"opening", "open"}
  /\ mute' = IF entry[r].dead # Fresh /\ (link[r] = "opening" \/ wire[r] # {}) THEN mute \cup {r} ELSE mute
  /\ link' = [link EXCEPT ![r] = "silent"]
  /\ wire' = [wire EXCEPT ![r] = {}]
  /\ UNCHANGED <<row, age, stored, entry, hush, served, crashes>>

\* A retry interval: dead entries are attached again, the others count as
\* recovered.  A connect (3 s) and a delivery take less than an interval.
Ticked(e) ==
  IF e.alive THEN [e EXCEPT !.dead = Fresh]
  ELSE attach([e EXCEPT !.dead = IF e.dead < Lookback THEN e.dead + 1 ELSE e.dead])

FeedTick ==
  /\ \A r \in Relays : link[r] # "opening" /\ hush[r] < Silence /\ wire[r] = {}
  /\ age' = [q \in Requests |-> Older(age[q])]
  /\ hush' = [r \in Relays |-> IF link[r] = "silent" THEN hush[r] + 1 ELSE 0]
  /\ IF subbed
     THEN /\ entry' = [r \in Relays |-> Ticked(entry[r])]
          /\ link' = [r \in Relays |-> IF entry[r].alive THEN link[r] ELSE "opening"]
     ELSE UNCHANGED <<entry, link>>
  /\ UNCHANGED <<row, stored, wire, served, mute, crashes>>

-----------------------------------------------------------------------------
\* Requests.

\* The client, once it has been shown the URI, publishes to the relays it reaches.
Publish(q, rs) ==
  /\ conn # "none" /\ ~reg /\ age[q] = Unborn /\ rs # {}
  /\ age' = [age EXCEPT ![q] = 0]
  /\ stored' = [r \in Relays |-> IF r \in rs THEN stored[r] \cup {q} ELSE stored[r]]
  /\ wire' = [r \in Relays |-> IF r \in rs /\ link[r] = "open" THEN wire[r] \cup {q} ELSE wire[r]]
  /\ UNCHANGED <<row, lines, served, mute, crashes>>

Keep == SeenMax \div 2
LastOf(ids) == IF Len(ids) > Keep THEN SubSeq(ids, Len(ids) - Keep + 1, Len(ids)) ELSE ids

\* Mutant: the memory is emptied when it is full.
rememberedNone(ids) == IF Len(ids) > SeenMax THEN <<>> ELSE ids

\* alreadyHaveEvent evicts the oldest ids down to half when the memory is full.
remembered(ids) == IF Len(ids) > SeenMax THEN SubSeq(ids, Len(ids) - Keep + 1, Len(ids)) ELSE ids

\* handleEvent up to the dispatch: a live connection and an event not processed.
dispatched(q) == conn # "revoked" /\ q \notin processed

Deliver(r, q) ==
  /\ subbed /\ q \in wire[r]
  /\ wire' = [wire EXCEPT ![r] = @ \ {q}]
  /\ got' = got \cup {q}
  /\ IF Contains(seen, q) THEN UNCHANGED <<seen, latest, handler>>
     ELSE /\ seen' = remembered(Append(seen, q)) /\ latest' = LastOf(Append(latest, q))
          /\ handler' = [handler EXCEPT ![q] = IF dispatched(q) THEN handler[q] + 1 ELSE handler[q]]
  /\ UNCHANGED <<row, age, stored, lines, processed, mute, crashes>>

\* Some other request is received.
DeliverOther ==
  /\ subbed /\ \E r \in Relays : link[r] = "open"
  /\ seen' = remembered(Append(seen, Other)) /\ latest' = LastOf(Append(latest, Other))
  /\ UNCHANGED <<row, feed, lines, handler, processed, got, mute, crashes>>

\* The handler has answered and marks the event.
Handled(q) ==
  /\ handler[q] > 0 /\ handler' = [handler EXCEPT ![q] = handler[q] - 1]
  /\ processed' = processed \cup {q}
  /\ UNCHANGED <<row, feed, lines, seen, got, latest, mute, crashes>>

-----------------------------------------------------------------------------
\* The connection.

\* The page inserts the row and awaits the info event ...
Create ==
  /\ conn = "none" /\ conn' = "active" /\ reg' = TRUE
  /\ UNCHANGED <<subbed, feed, lines, served, mute, crashes>>

\* A new PersistentSub, with a memory of its own.
subscribeOne ==
  /\ subbed' = TRUE
  /\ entry' = [r \in Relays |-> attach(Detached)] /\ link' = [r \in Relays |-> "opening"]
  /\ hush' = [r \in Relays |-> 0] /\ wire' = [r \in Relays |-> {}] /\ seen' = <<>> /\ latest' = <<>>

\* ... and then subscribes, whatever has become of the row.
registerConnection ==
  /\ reg /\ reg' = FALSE
  /\ subscribeOne
  /\ UNCHANGED <<conn, age, stored, handler, processed, got, mute, crashes>>

unregisterConnection ==
  /\ subbed' = FALSE
  /\ entry' = [r \in Relays |-> Detached] /\ link' = [r \in Relays |-> "none"]
  /\ hush' = [r \in Relays |-> 0] /\ wire' = [r \in Relays |-> {}] /\ seen' = <<>> /\ latest' = <<>>

revokeConnection ==
  /\ conn = "active" /\ conn' = "revoked"
  /\ IF subbed THEN unregisterConnection ELSE UNCHANGED <<subbed, lines, wire, seen, latest>>
  /\ UNCHANGED <<reg, age, stored, handler, processed, got, mute, crashes>>

\* A restart: active connections are subscribed, from now on.
Crash ==
  /\ crashes < MaxCrashes /\ crashes' = crashes + 1
  /\ IF conn = "active" THEN subscribeOne ELSE unregisterConnection
  /\ reg' = FALSE
  /\ handler' = [q \in Requests |-> 0] /\ got' = {q \in Requests : age[q] # Unborn} /\ mute' = {}
  /\ UNCHANGED <<conn, age, stored, processed>>

FeedNext ==
  \/ \E r \in Relays : Drop(r) \/ Notice(r) \/ LateClose(r) \/ Open(r) \/ Silent(r) \/ (\E q \in Requests : Deliver(r, q))
  \/ \E q \in Requests : Handled(q) \/ (\E rs \in SUBSET Relays : Publish(q, rs))
  \/ FeedTick \/ DeliverOther \/ Create \/ registerConnection \/ revokeConnection \/ Crash

FeedSpec == FeedInit /\ [][FeedNext]_fvars

-----------------------------------------------------------------------------
\* Properties.

\* No gap (persistent_sub.ts:22): a request published in this life to a relay whose
\* REQ is open has been received or is under way, however often the relay was
\* lost and noticed late in between, until it is older than the lookback; except
\* on a relay that took a resuming REQ and fell silent before it had answered.
NoGap ==
  conn = "active" /\ subbed =>
    \A r \in Relays : \A q \in stored[r] :
      link[r] = "open" /\ age[q] <= Lookback /\ r \notin mute => q \in got \cup wire[r]

\* A request is handed to a handler once, whichever relays bring it and however
\* often (persistent_sub.ts:75), as long as it is among the last ids let through
\* that the memory, which evicts down to half, is sure to hold.
HandedOutOnce ==
  [][\A q \in Requests : handler'[q] > handler[q] => ~Contains(latest, q)]_fvars

\* What the sub believes of a relay is what is so (persistent_sub.ts:117): an entry
\* counts as alive exactly while an attach of it is under way or open, so a dead
\* one is issued again at the next tick and a live one is never issued twice.
NeverDeaf == subbed => \A r \in Relays : entry[r].alive <=> link[r] # "none"
=============================================================================
