----------------------------- MODULE NostrProofs ------------------------------
(***************************************************************************)
(* Proofs about the request feed (module NostrFeed), the relay lists and   *)
(* the queue of notifications (module Notifier) and the gate in front of a *)
(* relay (module RelayGate), for any number of relays, requests and        *)
(* callers, and any skew, lookback, delay and size that the assumptions    *)
(* allow.                                                                  *)
(***************************************************************************)
EXTENDS NostrFeed, RelayGate, Notifier, SequenceTheorems, FiniteSetTheorems, TLAPS

-----------------------------------------------------------------------------
(* The memory of seen ids. What was let through last is a tail of it. *)

Ids == Requests \cup {Other}

IsTail(l, s) == Len(l) <= Len(s) /\ \A i \in 1..Len(l) : l[i] = s[Len(s) - Len(l) + i]

LEMMA KeepBounds == Keep \in Nat /\ Keep <= SeenMax
BY NostrFeedAssumption DEF Keep

\* The end of a sequence that is longer than half the memory.
LEMMA CutProperties ==
  ASSUME NEW s \in Seq(Ids), Len(s) > Keep
  PROVE  LET t == SubSeq(s, Len(s) - Keep + 1, Len(s))
         IN t \in Seq(Ids) /\ Len(t) = Keep /\ \A i \in 1..Keep : t[i] = s[Len(s) - Keep + i]
<1> DEFINE m == Len(s) - Keep + 1
           n == Len(s)
           t == SubSeq(s, m, n)
<1>1. m \in Int /\ n \in Int /\ n - m + 1 = Keep /\ m >= 1 /\ n \in Nat /\ (m <= n \/ Keep = 0)
  BY KeepBounds
<1>2. \A i \in m..n : s[i] \in Ids
  BY <1>1, ElementOfSeq
<1> HIDE DEF m, n
<1>3. t \in Seq(Ids) /\ Len(t) = (IF m <= n THEN n - m + 1 ELSE 0) /\ \A i \in 1..(n - m + 1) : t[i] = s[m + i - 1]
  BY <1>1, <1>2, SubSeqProperties
<1>4. Len(t) = Keep
  BY <1>1, <1>3
<1>5. \A i \in 1..Keep : t[i] = s[Len(s) - Keep + i]
  BY <1>1, <1>3, KeepBounds DEF m
<1> QED
  BY <1>3, <1>4, <1>5 DEF m, n

LEMMA LastOfProperties ==
  ASSUME NEW l \in Seq(Ids)
  PROVE  /\ LastOf(l) \in Seq(Ids) /\ Len(LastOf(l)) <= Keep /\ Len(LastOf(l)) <= Len(l)
         /\ \A i \in 1..Len(LastOf(l)) : LastOf(l)[i] = l[Len(l) - Len(LastOf(l)) + i]
<1>1. CASE Len(l) > Keep
  <2>1. LastOf(l) = SubSeq(l, Len(l) - Keep + 1, Len(l))
    BY <1>1 DEF LastOf
  <2> QED
    BY <1>1, <2>1, CutProperties, KeepBounds
<1>2. CASE ~(Len(l) > Keep)
  <2>1. LastOf(l) = l
    BY <1>2 DEF LastOf
  <2> QED
    BY <1>2, <2>1, KeepBounds
<1> QED
  BY <1>1, <1>2

\* A new id at the end of the memory and of what was let through last.
LEMMA MemoryKept ==
  ASSUME seen \in Seq(Ids), Len(seen) <= SeenMax, latest \in Seq(Ids), Len(latest) <= Keep, IsTail(latest, seen),
         NEW x \in Ids, seen' = remembered(Append(seen, x)), latest' = LastOf(Append(latest, x))
  PROVE  /\ seen' \in Seq(Ids) /\ Len(seen') <= SeenMax
         /\ latest' \in Seq(Ids) /\ Len(latest') <= Keep /\ IsTail(latest', seen')
<1> DEFINE s == Append(seen, x)
           l == Append(latest, x)
<1>1. /\ s \in Seq(Ids) /\ Len(s) = Len(seen) + 1 /\ l \in Seq(Ids) /\ Len(l) = Len(latest) + 1
      /\ \A i \in 1..Len(seen) : s[i] = seen[i]
      /\ \A i \in 1..Len(latest) : l[i] = latest[i]
      /\ s[Len(seen) + 1] = x /\ l[Len(latest) + 1] = x
      /\ Len(seen) \in Nat /\ Len(latest) \in Nat
  BY AppendProperties, LenProperties
<1>2. IsTail(l, s)
  <2>1. Len(l) <= Len(s)
    BY <1>1 DEF IsTail
  <2>2. ASSUME NEW i \in 1..Len(l) PROVE l[i] = s[Len(s) - Len(l) + i]
    <3>1. CASE i = Len(latest) + 1
      BY <1>1, <3>1
    <3>2. CASE i # Len(latest) + 1
      <4>1. i \in 1..Len(latest) /\ Len(seen) - Len(latest) + i \in 1..Len(seen)
        BY <1>1, <2>1, <3>2
      <4>2. latest[i] = seen[Len(seen) - Len(latest) + i]
        BY <4>1 DEF IsTail
      <4>3. Len(s) - Len(l) + i = Len(seen) - Len(latest) + i
        BY <1>1
      <4> QED
        BY <1>1, <4>1, <4>2, <4>3
    <3> QED
      BY <3>1, <3>2
  <2> QED
    BY <2>1, <2>2 DEF IsTail
<1>0. seen' = remembered(s)
  OBVIOUS
<1> HIDE DEF s, l
<1>3. /\ latest' \in Seq(Ids) /\ Len(latest') <= Keep /\ Len(latest') <= Len(l)
      /\ \A i \in 1..Len(latest') : latest'[i] = l[Len(l) - Len(latest') + i]
  BY <1>1, LastOfProperties DEF l
<1>4. Len(latest') \in Nat /\ Len(l) \in Nat /\ Len(s) \in Nat
  BY <1>1, <1>3, LenProperties
<1>5. ASSUME NEW i \in 1..Len(latest')
      PROVE  latest'[i] = s[Len(s) - Len(latest') + i]
  <2>1. Len(l) - Len(latest') + i \in 1..Len(l)
    BY <1>3, <1>4
  <2>2. l[Len(l) - Len(latest') + i] = s[Len(s) - Len(l) + (Len(l) - Len(latest') + i)]
    BY <1>2, <2>1 DEF IsTail
  <2>3. Len(s) - Len(l) + (Len(l) - Len(latest') + i) = Len(s) - Len(latest') + i
    BY <1>4
  <2> QED
    BY <1>3, <2>2, <2>3
<1>6. CASE Len(s) > SeenMax
  <2>1. seen' = SubSeq(s, Len(s) - Keep + 1, Len(s))
    BY <1>0, <1>6 DEF remembered
  <2>2. seen' \in Seq(Ids) /\ Len(seen') = Keep /\ \A i \in 1..Keep : seen'[i] = s[Len(s) - Keep + i]
    <3>1. s \in Seq(Ids) /\ Len(s) > Keep
      BY <1>1, <1>4, <1>6, KeepBounds, NostrFeedAssumption
    <3> QED
      BY <2>1, <3>1, CutProperties, Zenon
  <2>3. ASSUME NEW i \in 1..Len(latest') PROVE latest'[i] = seen'[Len(seen') - Len(latest') + i]
    <3>1. Keep - Len(latest') + i \in 1..Keep
      BY <1>3, <1>4, KeepBounds
    <3>2. Len(s) - Keep + (Keep - Len(latest') + i) = Len(s) - Len(latest') + i
      BY <1>4, KeepBounds
    <3>3. seen'[Keep - Len(latest') + i] = s[Len(s) - Keep + (Keep - Len(latest') + i)]
      BY <2>2, <3>1
    <3>4. latest'[i] = s[Len(s) - Len(latest') + i]
      BY <1>5, <2>3
    <3> QED
      BY <2>2, <3>2, <3>3, <3>4
  <2> QED
    BY <1>3, <2>2, <2>3, KeepBounds DEF IsTail
<1>7. CASE ~(Len(s) > SeenMax)
  <2>1. seen' = s
    BY <1>0, <1>7 DEF remembered
  <2>2. Len(latest') <= Len(s)
    BY <1>2, <1>3, <1>4 DEF IsTail
  <2>3. Len(s) <= SeenMax
    BY <1>4, <1>7, NostrFeedAssumption
  <2>4. IsTail(latest', s)
    BY <1>5, <2>2 DEF IsTail
  <2> QED
    BY <1>1, <1>3, <2>1, <2>3, <2>4
<1> QED
  BY <1>6, <1>7

-----------------------------------------------------------------------------
(* The feed. A request that was not received yet is, relay by relay, on its  *)
(* way, within the window of the REQ under way or to come, or younger than   *)
(* the silence that hides it.                                                *)

EntryType == [alive : BOOLEAN, dead : 0..Fresh]

MemoryInv == IsTail(latest, seen)

LineInv ==
  /\ ~subbed => \A r \in Relays : link[r] = "none" /\ wire[r] = {}
  /\ subbed => \A r \in Relays : (entry[r].alive <=> link[r] # "none")
                                 /\ (link[r] = "none" => entry[r].dead # Fresh)
  /\ \A r \in Relays : /\ link[r] # "silent" => hush[r] = 0
                       /\ link[r] = "silent" /\ hush[r] > 0 => entry[r].dead = Fresh
                       /\ link[r] # "open" => wire[r] = {}

RowInv ==
  /\ conn = "none" => ~subbed /\ ~reg
  /\ conn = "active" /\ ~subbed => reg
  /\ conn = "none" \/ reg => \A q \in Requests : age[q] = Unborn
  /\ \A r \in Relays : \A q \in stored[r] : age[q] # Unborn

Missing(r, q) == q \in stored[r] /\ age[q] <= Lookback /\ q \notin got /\ r \notin mute

GapInv ==
  conn = "active" /\ subbed =>
    \A r \in Relays, q \in Requests :
      /\ q \in wire[r] => age[q] <= window(entry[r].dead)
      /\ Missing(r, q) =>
           /\ link[r] = "open" => q \in wire[r]
           /\ link[r] \in {"opening", "none"} => age[q] <= window(entry[r].dead)
           /\ link[r] = "silent" => age[q] <= hush[r]

FeedInv == FeedTypeOK /\ MemoryInv /\ LineInv /\ RowInv /\ GapInv

\* The numbers of the feed.
LEMMA Numbers ==
  /\ Skew \in Nat /\ Lookback \in Nat /\ Silence \in Nat /\ Silence + 1 <= Skew /\ Skew <= Lookback
  /\ Fresh \in Nat /\ Fresh = Lookback + 1 /\ Unborn = Lookback + 2 /\ MaxCrashes \in Nat
BY NostrFeedAssumption DEF Fresh, Unborn

LEMMA WindowBounds ==
  ASSUME NEW d \in 0..Fresh
  PROVE  /\ window(d) \in 0..Lookback /\ window(Fresh) = 0
         /\ d # Fresh => window(d) >= Skew
BY Numbers DEF window

\* onclose never shortens the window.
LEMMA CloseWidens ==
  ASSUME NEW e \in EntryType
  PROVE  /\ onclose(e) \in EntryType /\ ~onclose(e).alive /\ onclose(e).dead # Fresh
         /\ window(e.dead) <= window(onclose(e).dead) /\ Skew <= window(onclose(e).dead)
         /\ e.dead # Fresh => onclose(e).dead = e.dead
<1> DEFINE d == IF e.dead = Fresh THEN 0 ELSE e.dead
<1>0. e.dead \in 0..Fresh /\ d \in 0..Fresh
  BY Numbers DEF EntryType
<1>2. onclose(e).dead = d /\ onclose(e) = [e EXCEPT !.alive = FALSE, !.dead = d]
  BY DEF onclose, EntryType
<1>1. onclose(e) \in EntryType /\ ~onclose(e).alive
  BY <1>0, <1>2 DEF EntryType
<1> QED
  BY <1>0, <1>1, <1>2, Numbers DEF window

\* A tick widens the window of a dead entry by one.
LEMMA TickWidens ==
  ASSUME NEW e \in EntryType
  PROVE  /\ Ticked(e) \in EntryType /\ Ticked(e).alive
         /\ e.alive => Ticked(e).dead = Fresh
         /\ ~e.alive /\ e.dead # Fresh =>
              /\ Ticked(e).dead # Fresh
              /\ \A n \in Nat : n < Lookback /\ n <= window(e.dead) => n + 1 <= window(Ticked(e).dead)
<1>0. e.dead \in 0..Fresh /\ e.alive \in BOOLEAN
  BY DEF EntryType
<1>1. CASE e.alive
  <2>1. Ticked(e) = [e EXCEPT !.dead = Fresh]
    BY <1>1 DEF Ticked
  <2> QED
    BY <1>1, <2>1, Numbers DEF EntryType
<1>2. CASE ~e.alive
  <2> DEFINE d == IF e.dead < Lookback THEN e.dead + 1 ELSE e.dead
  <2>1. d \in 0..Fresh
    BY <1>0, Numbers
  <2>2. Ticked(e) = [[e EXCEPT !.dead = d] EXCEPT !.alive = TRUE]
    BY <1>2 DEF Ticked, attach
  <2>3. Ticked(e) \in EntryType /\ Ticked(e).alive /\ Ticked(e).dead = d
    BY <2>1, <2>2 DEF EntryType
  <2> QED
    BY <1>0, <1>2, <2>3, Numbers DEF window
<1> QED
  BY <1>0, <1>1, <1>2

\* Steps that leave the lines and the requests alone.
LEMMA GapKept ==
  ASSUME FeedInv, UNCHANGED <<conn, reg, subbed, age, stored, entry, link, hush, wire, mute>>, got \subseteq got'
  PROVE  LineInv' /\ RowInv' /\ GapInv'
BY DEF FeedInv, LineInv, RowInv, GapInv, Missing

\* A step of one relay, to entry e, link l, silence h and messages w on the wire.
LineStep(r, e, l, h, w) ==
  /\ subbed
  /\ entry' = [entry EXCEPT ![r] = e] /\ link' = [link EXCEPT ![r] = l]
  /\ hush' = [hush EXCEPT ![r] = h] /\ wire' = [wire EXCEPT ![r] = w]
  /\ UNCHANGED <<conn, reg, subbed, age, stored, seen, handler, processed, got, latest, crashes>>
  /\ mute \subseteq mute' /\ mute' \subseteq Relays

\* What it has to respect.
LineRight(r, e, l, h, w) ==
  /\ (e.alive <=> l # "none") /\ (l = "none" => e.dead # Fresh)
  /\ (l # "silent" => h = 0) /\ (l = "silent" /\ h > 0 => e.dead = Fresh) /\ (l # "open" => w = {})
  /\ \A q \in w : age[q] <= window(e.dead)
  /\ conn = "active" => \A q \in Requests : Missing(r, q) /\ r \notin mute' =>
       /\ l = "open" => q \in w
       /\ l \in {"opening", "none"} => age[q] <= window(e.dead)
       /\ l = "silent" => age[q] <= h

LEMMA LinesKeep ==
  ASSUME FeedInv, NEW r \in Relays,
         NEW e \in EntryType, NEW l \in {"none", "opening", "open", "silent"}, NEW h \in 0..Silence, NEW w \in SUBSET Requests,
         LineStep(r, e, l, h, w), LineRight(r, e, l, h, w)
  PROVE  FeedInv'
<1> USE DEF LineStep, LineRight
<1>1. entry \in [Relays -> EntryType] /\ link \in [Relays -> {"none", "opening", "open", "silent"}]
      /\ hush \in [Relays -> 0..Silence] /\ wire \in [Relays -> SUBSET Requests]
  BY DEF FeedInv, FeedTypeOK, EntryType
<1>2. /\ entry'[r] = e /\ link'[r] = l /\ hush'[r] = h /\ wire'[r] = w
      /\ \A s \in Relays : s # r => entry'[s] = entry[s] /\ link'[s] = link[s] /\ hush'[s] = hush[s] /\ wire'[s] = wire[s]
  BY <1>1
<1>3. FeedTypeOK'
  <2>1. entry' \in [Relays -> EntryType] /\ link' \in [Relays -> {"none", "opening", "open", "silent"}]
    BY <1>1
  <2>2. hush' \in [Relays -> 0..Silence] /\ wire' \in [Relays -> SUBSET Requests]
    BY <1>1
  <2> QED
    BY <2>1, <2>2 DEF FeedInv, FeedTypeOK, EntryType
<1>4. MemoryInv' /\ RowInv'
  BY DEF FeedInv, MemoryInv, RowInv
<1>5. LineInv'
  BY <1>2 DEF FeedInv, LineInv
<1>6. GapInv'
  BY <1>2 DEF FeedInv, GapInv, Missing
<1> QED
  BY <1>3, <1>4, <1>5, <1>6 DEF FeedInv

LEMMA ClosedKeeps ==
  ASSUME FeedInv, NEW r \in Relays, Drop(r) \/ Notice(r)
  PROVE  FeedInv'
<1> DEFINE e == onclose(entry[r])
<1>1. /\ subbed /\ link[r] # "none"
      /\ entry' = [entry EXCEPT ![r] = e] /\ link' = [link EXCEPT ![r] = "none"] /\ hush' = [hush EXCEPT ![r] = 0]
      /\ wire' = [wire EXCEPT ![r] = {}]
      /\ UNCHANGED <<conn, reg, subbed, age, stored, seen, handler, processed, got, latest, mute, crashes>>
  BY DEF Drop, Notice, Closed, row, served
<1>2. entry[r] \in EntryType /\ mute \subseteq Relays /\ 0 \in 0..Silence /\ hush[r] \in 0..Silence /\ link[r] \in {"opening", "open", "silent"}
  BY <1>1, Numbers DEF FeedInv, FeedTypeOK, EntryType
<1>3. /\ e \in EntryType /\ ~e.alive /\ e.dead # Fresh
      /\ window(entry[r].dead) <= window(e.dead) /\ Skew <= window(e.dead)
  BY <1>2, CloseWidens
<1>4. ASSUME conn = "active", NEW q \in Requests, Missing(r, q) PROVE age[q] <= window(e.dead)
  <2>1. age[q] \in Nat /\ window(e.dead) \in Nat /\ window(entry[r].dead) \in Nat
    BY <1>2, <1>3, WindowBounds, Numbers DEF FeedInv, FeedTypeOK, EntryType
  <2>2. age[q] <= window(entry[r].dead) \/ age[q] <= hush[r]
    BY <1>1, <1>2, <1>4 DEF FeedInv, GapInv
  <2> QED
    BY <1>2, <1>3, <2>1, <2>2, Numbers
<1> HIDE DEF e
<1>5. LineStep(r, e, "none", 0, {})
  BY <1>1, <1>2 DEF LineStep
<1>6. LineRight(r, e, "none", 0, {})
  BY <1>3, <1>4 DEF LineRight
<1> QED
  BY <1>2, <1>3, <1>5, <1>6, LinesKeep

LEMMA OpenKeeps ==
  ASSUME FeedInv, NEW r \in Relays, Open(r)
  PROVE  FeedInv'
<1> DEFINE w == {q \in stored[r] : age[q] <= window(entry[r].dead)}
<1>1. /\ subbed /\ link[r] = "opening" /\ link' = [link EXCEPT ![r] = "open"] /\ wire' = [wire EXCEPT ![r] = w]
      /\ UNCHANGED <<conn, reg, subbed, age, stored, entry, hush, seen, handler, processed, got, latest, mute, crashes>>
  BY DEF Open, row, served
<1>2. /\ entry[r] \in EntryType /\ w \in SUBSET Requests /\ mute \subseteq Relays /\ 0 \in 0..Silence
      /\ entry' = [entry EXCEPT ![r] = entry[r]] /\ hush' = [hush EXCEPT ![r] = 0] /\ entry[r].alive
  BY <1>1, Numbers DEF FeedInv, FeedTypeOK, LineInv, EntryType
<1>3. ASSUME conn = "active", NEW q \in Requests, Missing(r, q) PROVE q \in w
  BY <1>1, <1>3 DEF FeedInv, GapInv, Missing
<1>4. \A q \in w : age[q] <= window(entry[r].dead)
  OBVIOUS
<1> HIDE DEF w
<1>5. LineStep(r, entry[r], "open", 0, w)
  BY <1>1, <1>2 DEF LineStep
<1>6. LineRight(r, entry[r], "open", 0, w)
  BY <1>2, <1>3, <1>4 DEF LineRight
<1> QED
  BY <1>2, <1>5, <1>6, LinesKeep

LEMMA SilentKeeps ==
  ASSUME FeedInv, NEW r \in Relays, Silent(r)
  PROVE  FeedInv'
<1>1. /\ subbed /\ link[r] \in {"opening", "open"} /\ link' = [link EXCEPT ![r] = "silent"] /\ wire' = [wire EXCEPT ![r] = {}]
      /\ mute' = IF entry[r].dead # Fresh /\ (link[r] = "opening" \/ wire[r] # {}) THEN mute \cup {r} ELSE mute
      /\ UNCHANGED <<conn, reg, subbed, age, stored, entry, hush, seen, handler, processed, got, latest, crashes>>
  BY DEF Silent, row, served
<1>2. /\ entry[r] \in EntryType /\ mute \subseteq mute' /\ mute' \subseteq Relays /\ 0 \in 0..Silence
      /\ entry' = [entry EXCEPT ![r] = entry[r]] /\ hush' = [hush EXCEPT ![r] = 0] /\ entry[r].alive
  BY <1>1, Numbers DEF FeedInv, FeedTypeOK, LineInv, EntryType
<1>3. ASSUME conn = "active", NEW q \in Requests, Missing(r, q), r \notin mute' PROVE age[q] <= 0
  <2>1. age[q] <= window(entry[r].dead) /\ (link[r] = "open" => q \in wire[r])
    BY <1>1, <1>3 DEF FeedInv, GapInv
  <2>2. entry[r].dead = Fresh
    BY <1>1, <1>3, <2>1
  <2> QED
    BY <1>2, <2>1, <2>2, WindowBounds, Numbers
<1>5. LineStep(r, entry[r], "silent", 0, {})
  BY <1>1, <1>2 DEF LineStep
<1>6. LineRight(r, entry[r], "silent", 0, {})
  BY <1>2, <1>3 DEF LineRight
<1> QED
  BY <1>2, <1>5, <1>6, LinesKeep

LEMMA LateCloseKeeps ==
  ASSUME FeedInv, NEW r \in Relays, LateClose(r)
  PROVE  FeedInv'
<1>1. UNCHANGED <<conn, reg, subbed, age, stored, wire, entry, link, hush, seen, handler, processed, got, latest, mute, crashes>>
  BY DEF LateClose, lateclose, row, feed, served, FeedInv, FeedTypeOK
<1> QED
  BY <1>1, GapKept DEF FeedInv, FeedTypeOK, MemoryInv

LEMMA TickKeeps == FeedInv /\ FeedTick => FeedInv'
<1> SUFFICES ASSUME FeedInv, FeedTick PROVE FeedInv'
  OBVIOUS
<1>1. /\ UNCHANGED <<conn, reg, subbed, stored, wire, seen, handler, processed, got, latest, mute, crashes>>
      /\ \A r \in Relays : link[r] # "opening" /\ hush[r] < Silence /\ wire[r] = {}
      /\ age' = [q \in Requests |-> Older(age[q])]
      /\ hush' = [r \in Relays |-> IF link[r] = "silent" THEN hush[r] + 1 ELSE 0]
  BY DEF FeedTick, row, served
<1>2. age' \in [Requests -> 0..Unborn] /\ \A q \in Requests : (age'[q] = Unborn <=> age[q] = Unborn)
      /\ (age'[q] <= Lookback => age'[q] = age[q] + 1 /\ age[q] < Lookback) /\ age[q] \in Nat
  BY <1>1, Numbers DEF Older, FeedInv, FeedTypeOK
<1>3. hush' \in [Relays -> 0..Silence]
  BY <1>1, Numbers DEF FeedInv, FeedTypeOK
<1>4. entry \in [Relays -> EntryType]
  BY DEF FeedInv, FeedTypeOK, EntryType
<1>5. MemoryInv' /\ RowInv'
  BY <1>1, <1>2 DEF FeedInv, MemoryInv, RowInv, FeedTypeOK
<1>6. CASE ~subbed
  <2>1. UNCHANGED <<entry, link>>
    BY <1>6 DEF FeedTick
  <2>2. FeedTypeOK'
    BY <1>1, <1>2, <1>3, <2>1 DEF FeedInv, FeedTypeOK
  <2>3. LineInv' /\ GapInv'
    BY <1>1, <1>6, <2>1 DEF FeedInv, LineInv, GapInv
  <2> QED
    BY <1>5, <2>2, <2>3 DEF FeedInv
<1>7. CASE subbed
  <2>1. /\ entry' = [r \in Relays |-> Ticked(entry[r])]
        /\ link' = [r \in Relays |-> IF entry[r].alive THEN link[r] ELSE "opening"]
    BY <1>7 DEF FeedTick
  <2>2. entry' \in [Relays -> EntryType] /\ link' \in [Relays -> {"none", "opening", "open", "silent"}]
    BY <1>4, <2>1, TickWidens DEF FeedInv, FeedTypeOK
  <2>3. FeedTypeOK'
    BY <1>1, <1>2, <1>3, <2>2 DEF FeedInv, FeedTypeOK, EntryType
  <2>4. \A r \in Relays : /\ entry'[r].alive /\ link'[r] = (IF link[r] = "none" THEN "opening" ELSE link[r])
                          /\ link[r] # "none" => entry'[r].dead = Fresh
    BY <1>4, <1>7, <2>1, TickWidens DEF FeedInv, LineInv
  <2>5. LineInv'
    BY <1>1, <1>7, <2>4 DEF FeedInv, LineInv, FeedTypeOK
  <2>6. GapInv'
    <3> SUFFICES ASSUME conn = "active", NEW r \in Relays, NEW q \in Requests, Missing(r, q)'
                 PROVE  /\ link'[r] = "open" => q \in wire[r]
                        /\ link'[r] \in {"opening", "none"} => age'[q] <= window(entry'[r].dead)
                        /\ link'[r] = "silent" => age'[q] <= hush'[r]
      BY <1>1, <1>7 DEF GapInv
    <3>1. age'[q] = age[q] + 1 /\ age[q] < Lookback /\ age[q] \in Nat /\ Missing(r, q)
      BY <1>1, <1>2, Numbers DEF Missing
    <3>2. link[r] # "open"
      BY <1>1, <1>7, <3>1 DEF FeedInv, GapInv
    <3>3. CASE link[r] = "silent"
      <4>1. age[q] <= hush[r] /\ hush'[r] = hush[r] + 1 /\ link'[r] = "silent" /\ hush[r] \in Nat
        BY <1>1, <1>7, <2>4, <3>1, <3>3 DEF FeedInv, GapInv, FeedTypeOK
      <4> QED
        BY <3>1, <4>1
    <3>4. CASE link[r] = "none"
      <4>1. ~entry[r].alive /\ entry[r].dead # Fresh /\ age[q] <= window(entry[r].dead) /\ entry[r] \in EntryType
        BY <1>4, <1>7, <3>1, <3>4 DEF FeedInv, GapInv, LineInv
      <4>2. age[q] + 1 <= window(Ticked(entry[r]).dead)
        BY <3>1, <4>1, TickWidens
      <4> QED
        BY <2>1, <2>4, <3>1, <3>4, <4>2
    <3> QED
      BY <1>1, <3>2, <3>3, <3>4 DEF FeedInv, FeedTypeOK
  <2> QED
    BY <1>5, <2>3, <2>5, <2>6 DEF FeedInv
<1> QED
  BY <1>6, <1>7 DEF FeedInv, FeedTypeOK

LEMMA PublishKeeps ==
  ASSUME FeedInv, NEW q \in Requests, NEW rs \in SUBSET Relays, Publish(q, rs)
  PROVE  FeedInv'
<1>1. /\ UNCHANGED <<conn, reg, subbed, entry, link, hush, seen, handler, processed, got, latest, mute, crashes>>
      /\ conn # "none" /\ ~reg /\ age[q] = Unborn /\ age' = [age EXCEPT ![q] = 0]
      /\ stored' = [r \in Relays |-> IF r \in rs THEN stored[r] \cup {q} ELSE stored[r]]
      /\ wire' = [r \in Relays |-> IF r \in rs /\ link[r] = "open" THEN wire[r] \cup {q} ELSE wire[r]]
  BY DEF Publish, row, lines, served
<1>2. /\ age' \in [Requests -> 0..Unborn] /\ age'[q] = 0 /\ \A p \in Requests : p # q => age'[p] = age[p]
  BY <1>1, Numbers DEF FeedInv, FeedTypeOK
<1>3. /\ stored' \in [Relays -> SUBSET Requests] /\ wire' \in [Relays -> SUBSET Requests]
      /\ \A r \in Relays : /\ stored[r] \subseteq stored'[r] /\ stored'[r] \subseteq stored[r] \cup {q}
                           /\ wire[r] \subseteq wire'[r] /\ wire'[r] \subseteq wire[r] \cup {q}
                           /\ link[r] # "open" => wire'[r] = wire[r]
                           /\ link[r] = "open" /\ q \in stored'[r] /\ q \notin stored[r] => q \in wire'[r]
                           /\ q \notin stored[r]
  BY <1>1 DEF FeedInv, FeedTypeOK, RowInv
<1>4. FeedTypeOK'
  BY <1>1, <1>2, <1>3 DEF FeedInv, FeedTypeOK
<1>5. MemoryInv' /\ LineInv'
  BY <1>1, <1>3 DEF FeedInv, MemoryInv, LineInv
<1>6. RowInv'
  <2>1. ASSUME NEW r \in Relays, NEW p \in stored'[r] PROVE age'[p] # Unborn
    <3>1. CASE p = q
      BY <1>2, <3>1, Numbers
    <3>2. CASE p # q
      <4>1. p \in stored[r] /\ p \in Requests
        BY <1>3, <3>2 DEF FeedInv, FeedTypeOK
      <4> QED
        BY <1>2, <3>2, <4>1 DEF FeedInv, RowInv
    <3> QED
      BY <3>1, <3>2
  <2> QED
    BY <1>1, <2>1 DEF FeedInv, RowInv
<1>7. GapInv'
  <2> SUFFICES ASSUME conn = "active", subbed, NEW r \in Relays, NEW p \in Requests
               PROVE  /\ p \in wire'[r] => age'[p] <= window(entry[r].dead)
                      /\ Missing(r, p)' =>
                           /\ link[r] = "open" => p \in wire'[r]
                           /\ link[r] \in {"opening", "none"} => age'[p] <= window(entry[r].dead)
                           /\ link[r] = "silent" => age'[p] <= hush[r]
    BY <1>1 DEF GapInv
  <2>1. CASE p = q
    <3>1. 0 <= window(entry[r].dead) /\ 0 <= hush[r]
      BY WindowBounds, Numbers DEF FeedInv, FeedTypeOK
    <3> QED
      BY <1>2, <1>3, <2>1, <3>1 DEF Missing
  <2>2. CASE p # q
    BY <1>1, <1>2, <1>3, <2>2 DEF FeedInv, GapInv, Missing
  <2> QED
    BY <2>1, <2>2
<1> QED
  BY <1>4, <1>5, <1>6, <1>7 DEF FeedInv

\* What is received and answered.
LEMMA ServedKeeps ==
  ASSUME FeedInv, DeliverOther \/ (\E q \in Requests : Handled(q)) \/ \E r \in Relays, q \in Requests : Deliver(r, q)
  PROVE  FeedInv'
<1>0. seen \in Seq(Ids) /\ Len(seen) <= SeenMax /\ latest \in Seq(Ids) /\ Len(latest) <= Keep /\ IsTail(latest, seen)
  BY DEF FeedInv, FeedTypeOK, MemoryInv, Ids, Keep
<1>1. CASE DeliverOther
  <2>1. UNCHANGED <<conn, reg, subbed, age, stored, wire, entry, link, hush, handler, processed, got, mute, crashes>>
    BY <1>1 DEF DeliverOther, row, feed, lines
  <2>2. seen' \in Seq(Ids) /\ Len(seen') <= SeenMax /\ latest' \in Seq(Ids) /\ Len(latest') <= Keep /\ IsTail(latest', seen')
    BY <1>0, <1>1, MemoryKept DEF DeliverOther, Ids
  <2> QED
    BY <2>1, <2>2, GapKept DEF FeedInv, FeedTypeOK, MemoryInv, Ids, Keep
<1>2. CASE \E q \in Requests : Handled(q)
  <2>1. PICK q \in Requests : Handled(q)
    BY <1>2
  <2>2. UNCHANGED <<conn, reg, subbed, age, stored, wire, entry, link, hush, seen, got, latest, mute, crashes>>
    BY <2>1 DEF Handled, row, feed, lines
  <2>3. handler' \in [Requests -> Nat] /\ processed' \subseteq Requests
    BY <2>1 DEF Handled, FeedInv, FeedTypeOK
  <2> QED
    BY <2>2, <2>3, GapKept DEF FeedInv, FeedTypeOK, MemoryInv
<1>3. CASE \E r \in Relays, q \in Requests : Deliver(r, q)
  <2>1. PICK r \in Relays, q \in Requests : Deliver(r, q)
    BY <1>3
  <2>2. /\ UNCHANGED <<conn, reg, subbed, age, stored, entry, link, hush, processed, mute, crashes>>
        /\ wire' = [wire EXCEPT ![r] = @ \ {q}] /\ got' = got \cup {q}
    BY <2>1 DEF Deliver, row, lines
  <2>3. seen' \in Seq(Ids) /\ Len(seen') <= SeenMax /\ latest' \in Seq(Ids) /\ Len(latest') <= Keep /\ IsTail(latest', seen')
    <3>1. CASE UNCHANGED <<seen, latest>>
      BY <1>0, <3>1
    <3>2. CASE seen' = remembered(Append(seen, q)) /\ latest' = LastOf(Append(latest, q))
      <4>1. q \in Ids
        BY DEF Ids
      <4> QED
        BY <1>0, <3>2, <4>1, MemoryKept
    <3> QED
      BY <2>1, <3>1, <3>2 DEF Deliver
  <2>4. handler' \in [Requests -> Nat]
    <3>1. handler' = handler \/ \E n \in Nat : handler' = [handler EXCEPT ![q] = n]
      <4>1. handler[q] \in Nat
        BY DEF FeedInv, FeedTypeOK
      <4> QED
        BY <2>1, <4>1 DEF Deliver
    <3> QED
      BY <3>1 DEF FeedInv, FeedTypeOK
  <2>5. /\ wire' \in [Relays -> SUBSET Requests]
        /\ \A s \in Relays : wire'[s] \subseteq wire[s] /\ wire[s] \subseteq wire'[s] \cup {q}
    BY <2>2 DEF FeedInv, FeedTypeOK
  <2>6. FeedTypeOK' /\ MemoryInv'
    BY <2>2, <2>3, <2>4, <2>5 DEF FeedInv, FeedTypeOK, MemoryInv, Ids, Keep
  <2>7. LineInv' /\ RowInv'
    BY <2>2, <2>5 DEF FeedInv, LineInv, RowInv
  <2>8. GapInv'
    BY <2>2, <2>5 DEF FeedInv, GapInv, Missing
  <2> QED
    BY <2>6, <2>7, <2>8 DEF FeedInv
<1> QED
  BY <1>1, <1>2, <1>3

\* A subscription that is opened or closed as a whole.
LEMMA WholeTypes ==
  ASSUME FeedInv, subscribeOne \/ unregisterConnection
  PROVE  /\ subbed' \in BOOLEAN /\ entry' \in [Relays -> EntryType] /\ hush' \in [Relays -> 0..Silence]
         /\ link' \in [Relays -> {"none", "opening", "open", "silent"}]
         /\ wire' \in [Relays -> SUBSET Requests] /\ seen' = <<>> /\ latest' = <<>>
         /\ LineInv'
<1>0. Fresh \in 0..Fresh /\ 0 \in 0..Silence
  BY Numbers
<1>1. Detached \in EntryType /\ attach(Detached) \in EntryType /\ attach(Detached).alive
  BY <1>0 DEF Detached, attach, EntryType
<1>2. CASE subscribeOne
  <2>1. /\ subbed' = TRUE /\ entry' = [r \in Relays |-> attach(Detached)] /\ link' = [r \in Relays |-> "opening"]
        /\ hush' = [r \in Relays |-> 0] /\ wire' = [r \in Relays |-> {}] /\ seen' = <<>> /\ latest' = <<>>
    BY <1>2 DEF subscribeOne
  <2>2. LineInv'
    BY <1>1, <2>1 DEF LineInv
  <2>3. /\ entry' \in [Relays -> EntryType] /\ hush' \in [Relays -> 0..Silence]
        /\ link' \in [Relays -> {"none", "opening", "open", "silent"}] /\ wire' \in [Relays -> SUBSET Requests]
    BY <1>0, <1>1, <2>1
  <2> QED
    BY <2>1, <2>2, <2>3
<1>3. CASE unregisterConnection
  <2>1. /\ subbed' = FALSE /\ entry' = [r \in Relays |-> Detached] /\ link' = [r \in Relays |-> "none"]
        /\ hush' = [r \in Relays |-> 0] /\ wire' = [r \in Relays |-> {}] /\ seen' = <<>> /\ latest' = <<>>
    BY <1>3 DEF unregisterConnection
  <2>2. LineInv'
    BY <2>1 DEF LineInv
  <2>3. /\ entry' \in [Relays -> EntryType] /\ hush' \in [Relays -> 0..Silence]
        /\ link' \in [Relays -> {"none", "opening", "open", "silent"}] /\ wire' \in [Relays -> SUBSET Requests]
    BY <1>0, <1>1, <2>1
  <2> QED
    BY <2>1, <2>2, <2>3
<1> QED
  BY <1>2, <1>3

\* An empty memory is in order.
LEMMA EmptyMemory ==
  ASSUME NEW s, s = <<>>
  PROVE  /\ s \in Seq(Requests \cup {Other}) /\ Len(s) <= SeenMax /\ Len(s) <= SeenMax \div 2
         /\ IsTail(s, s)
<1>1. Len(s) = 0 /\ s \in Seq(Requests \cup {Other})
  OBVIOUS
<1>2. 0 <= SeenMax /\ 0 <= SeenMax \div 2
  BY KeepBounds, NostrFeedAssumption DEF Keep
<1>3. IsTail(s, s)
  BY <1>1 DEF IsTail
<1> QED
  BY <1>1, <1>2, <1>3

LEMMA RowKeeps == FeedInv /\ (Create \/ registerConnection \/ revokeConnection) => FeedInv'
<1> SUFFICES ASSUME FeedInv, Create \/ registerConnection \/ revokeConnection PROVE FeedInv'
  OBVIOUS
<1>1. CASE Create \/ (revokeConnection /\ ~subbed)
  <2>1. /\ UNCHANGED <<subbed, age, stored, wire, entry, link, hush, seen, handler, processed, got, latest, mute, crashes>>
        /\ conn' \in {"active", "revoked"} /\ reg' \in BOOLEAN /\ ~subbed
        /\ conn' = "active" => reg'
        /\ reg' => conn = "none" \/ reg
    BY <1>1 DEF Create, revokeConnection, feed, lines, served, FeedInv, FeedTypeOK, RowInv
  <2>2. FeedTypeOK' /\ MemoryInv'
    BY <2>1 DEF FeedInv, FeedTypeOK, MemoryInv
  <2>3. LineInv' /\ RowInv' /\ GapInv'
    BY <2>1 DEF FeedInv, LineInv, RowInv, GapInv
  <2> QED
    BY <2>2, <2>3 DEF FeedInv
<1>2. CASE registerConnection \/ (revokeConnection /\ subbed)
  <2>1. /\ UNCHANGED <<age, stored, handler, processed, got, mute, crashes>>
        /\ subscribeOne \/ unregisterConnection
        /\ conn' \in {"active", "revoked"} /\ reg' \in BOOLEAN
        /\ registerConnection => conn' = conn /\ reg /\ ~reg' /\ subbed'
        /\ revokeConnection /\ subbed => conn' = "revoked" /\ reg' = reg /\ ~subbed'
    BY <1>2 DEF registerConnection, revokeConnection, subscribeOne, unregisterConnection, FeedInv, FeedTypeOK, RowInv
  <2>2. FeedTypeOK' /\ MemoryInv'
    <3>1. seen' = <<>> /\ latest' = <<>>
      BY <2>1, WholeTypes
    <3>2. /\ seen' \in Seq(Requests \cup {Other}) /\ Len(seen') <= SeenMax
          /\ latest' \in Seq(Requests \cup {Other}) /\ Len(latest') <= SeenMax \div 2 /\ IsTail(latest', seen')
      BY <3>1, EmptyMemory
    <3> QED
      BY <2>1, <3>2, WholeTypes DEF FeedInv, FeedTypeOK, MemoryInv, EntryType
  <2>3. LineInv'
    BY <2>1, WholeTypes
  <2>4. RowInv'
    BY <1>2, <2>1 DEF FeedInv, RowInv
  <2>5. GapInv'
    <3>1. CASE conn' = "active"
      <4>1. \A r \in Relays : stored'[r] = {} /\ wire'[r] = {}
        BY <1>2, <2>1, <3>1 DEF FeedInv, RowInv, FeedTypeOK, subscribeOne, unregisterConnection
      <4> QED
        BY <4>1 DEF GapInv, Missing
    <3>2. CASE conn' # "active"
      BY <3>2 DEF GapInv
    <3> QED
      BY <3>1, <3>2
  <2> QED
    BY <2>2, <2>3, <2>4, <2>5 DEF FeedInv
<1> QED
  BY <1>1, <1>2 DEF FeedInv, FeedTypeOK

LEMMA CrashKeeps == FeedInv /\ Crash => FeedInv'
<1> SUFFICES ASSUME FeedInv, Crash PROVE FeedInv'
  OBVIOUS
<1>1. /\ UNCHANGED <<conn, age, stored, processed>> /\ ~reg' /\ reg' \in BOOLEAN /\ mute' = {}
      /\ handler' = [q \in Requests |-> 0] /\ got' = {q \in Requests : age[q] # Unborn}
      /\ subscribeOne \/ unregisterConnection
      /\ conn = "active" => subbed'
      /\ conn # "active" => ~subbed'
  BY DEF Crash, subscribeOne, unregisterConnection
<1>2. crashes' \in 0..MaxCrashes
  BY Numbers DEF Crash, FeedInv, FeedTypeOK
<1>3. handler' \in [Requests -> Nat] /\ got' \subseteq Requests /\ mute' \subseteq Relays
  BY <1>1
<1>4. FeedTypeOK' /\ MemoryInv'
  <2>1. seen' = <<>> /\ latest' = <<>>
    BY <1>1, WholeTypes
  <2>2. /\ seen' \in Seq(Requests \cup {Other}) /\ Len(seen') <= SeenMax
        /\ latest' \in Seq(Requests \cup {Other}) /\ Len(latest') <= SeenMax \div 2 /\ IsTail(latest', seen')
    BY <2>1, EmptyMemory
  <2> QED
    BY <1>1, <1>2, <1>3, <2>2, WholeTypes DEF FeedInv, FeedTypeOK, MemoryInv, EntryType
<1>5. LineInv'
  BY <1>1, WholeTypes
<1>6. RowInv'
  BY <1>1 DEF FeedInv, RowInv
<1>7. GapInv'
  <2>1. \A r \in Relays : stored[r] \subseteq got' /\ wire'[r] = {}
    BY <1>1 DEF FeedInv, RowInv, FeedTypeOK, subscribeOne, unregisterConnection
  <2> QED
    BY <1>1, <2>1 DEF GapInv, Missing
<1> QED
  BY <1>4, <1>5, <1>6, <1>7 DEF FeedInv

LEMMA FeedInitHolds == FeedInit => FeedInv
<1> SUFFICES ASSUME FeedInit PROVE FeedInv
  OBVIOUS
<1>1. entry \in [Relays -> EntryType] /\ hush \in [Relays -> 0..Silence] /\ crashes \in 0..MaxCrashes
  BY Numbers DEF FeedInit, Detached, EntryType
<1>2. age \in [Requests -> 0..Unborn]
  BY Numbers DEF FeedInit
<1>3. stored \in [Relays -> SUBSET Requests] /\ wire \in [Relays -> SUBSET Requests] /\ handler \in [Requests -> Nat]
      /\ link \in [Relays -> {"none", "opening", "open", "silent"}]
  BY DEF FeedInit
<1>4. seen = <<>> /\ latest = <<>> /\ subbed = FALSE /\ reg = FALSE /\ conn = "none"
      /\ processed = {} /\ got = {} /\ mute = {}
  BY DEF FeedInit
<1>5. /\ seen \in Seq(Requests \cup {Other}) /\ Len(seen) <= SeenMax
      /\ latest \in Seq(Requests \cup {Other}) /\ Len(latest) <= SeenMax \div 2 /\ IsTail(latest, seen)
  BY <1>4, EmptyMemory
<1>6. FeedTypeOK /\ MemoryInv
  BY <1>1, <1>2, <1>3, <1>4, <1>5 DEF FeedTypeOK, EntryType, MemoryInv
<1>7. LineInv /\ RowInv /\ GapInv
  BY DEF FeedInit, LineInv, RowInv, GapInv
<1> QED
  BY <1>6, <1>7 DEF FeedInv

\* The feed keeps its invariant over every death, silence, late notice, restart,
\* registration and revocation (nostr/persistent_sub.ts, nostr/service.ts).
THEOREM FeedInvariance == FeedSpec => []FeedInv
<1>1. FeedInv /\ [FeedNext]_fvars => FeedInv'
  <2> SUFFICES ASSUME FeedInv, [FeedNext]_fvars PROVE FeedInv'
    OBVIOUS
  <2>1. CASE UNCHANGED fvars
    <3>1. UNCHANGED <<conn, reg, subbed, age, stored, wire, entry, link, hush, seen, handler, processed, got, latest, mute, crashes>>
      BY <2>1 DEF fvars, row, feed, lines, served
    <3> QED
      BY <3>1, GapKept DEF FeedInv, FeedTypeOK, MemoryInv
  <2> QED
    BY <2>1, ClosedKeeps, LateCloseKeeps, OpenKeeps, SilentKeeps, TickKeeps, PublishKeeps, ServedKeeps, RowKeeps, CrashKeeps
       DEF FeedNext
<1> QED
  BY <1>1, FeedInitHolds, PTL DEF FeedSpec

\* No request is missed within the lookback, however often its relays are lost,
\* for every skew that covers the ping (nostr/persistent_sub.ts attach).
THEOREM FeedHasNoGap == FeedSpec => []NoGap
<1>1. FeedInv => NoGap
  BY DEF FeedInv, FeedTypeOK, GapInv, NoGap, Missing
<1> QED
  BY <1>1, FeedInvariance, PTL

\* What the subscription believes of a relay is what is so (nostr/persistent_sub.ts onclose).
THEOREM FeedIsNeverDeaf == FeedSpec => []NeverDeaf
<1>1. FeedInv => NeverDeaf
  BY DEF FeedInv, LineInv, NeverDeaf
<1> QED
  BY <1>1, FeedInvariance, PTL

\* A request among the last ids let through is not let through again, for every
\* size of the memory (nostr/persistent_sub.ts alreadyHaveEvent).
THEOREM FeedHandsOutOnce == FeedSpec => HandedOutOnce
<1> DEFINE Once == \A q \in Requests : handler'[q] > handler[q] => ~Contains(latest, q)
<1>1. FeedInv /\ [FeedNext]_fvars => [Once]_fvars
  <2> SUFFICES ASSUME FeedInv, FeedNext, NEW q \in Requests, handler'[q] > handler[q] PROVE ~Contains(latest, q)
    OBVIOUS
  <2>1. handler \in [Requests -> Nat]
    BY DEF FeedInv, FeedTypeOK
  <2>2. handler' # handler /\ handler[q] \in Nat
    BY <2>1
  <2>3. CASE \E r \in Relays, p \in Requests : Deliver(r, p)
    <3>1. PICK r \in Relays, p \in Requests : Deliver(r, p)
      BY <2>3
    <3>2. p = q /\ ~Contains(seen, q)
      BY <2>1, <2>2, <3>1 DEF Deliver
    <3>3. ASSUME NEW i \in 1..Len(latest), latest[i] = q PROVE FALSE
      <4>1. Len(latest) \in Nat /\ Len(seen) \in Nat /\ Len(latest) <= Len(seen)
        BY LenProperties DEF FeedInv, FeedTypeOK, MemoryInv, IsTail
      <4>2. Len(seen) - Len(latest) + i \in 1..Len(seen) /\ seen[Len(seen) - Len(latest) + i] = q
        BY <3>3, <4>1 DEF FeedInv, MemoryInv, IsTail
      <4> QED
        BY <3>2, <4>2 DEF Contains
    <3> QED
      BY <3>3 DEF Contains
  <2>4. CASE \E p \in Requests : Handled(p)
    <3>1. PICK p \in Requests : handler[p] > 0 /\ handler' = [handler EXCEPT ![p] = handler[p] - 1]
      BY <2>4 DEF Handled
    <3> QED
      BY <2>1, <2>2, <3>1
  <2>5. CASE Crash
    BY <2>2, <2>5 DEF Crash
  <2> QED
    BY <2>2, <2>3, <2>4, <2>5
    DEF FeedNext, Drop, Notice, LateClose, Open, Silent, Publish, FeedTick, DeliverOther, Create, registerConnection, revokeConnection, served
<1>2. FeedSpec => [][Once]_fvars
  BY <1>1, FeedInvariance, PTL DEF FeedSpec
<1> QED
  BY <1>2 DEF HandedOutOnce

-----------------------------------------------------------------------------
(* The relay lists: what is kept of an author is what the newest stamp named. *)

ListInv ==
  /\ key \in Accounts \cup {Nobody} /\ top \in [Kinds \X Authors -> Stamps \cup {0}]
  /\ ListsAreCurrent

\* What the list published at n looks like once it is kept.
Kept(kind, by, n) == IF n = 0 THEN Blank ELSE [list |-> ListOf[<<kind, by, n>>], at |-> n]

Later(at, n) == IF at > n THEN at ELSE n

\* The list of an author that the watcher follows, after an event of that author.
LEMMA ApplyKeepsNewest ==
  ASSUME NEW kind \in Kinds, NEW by \in Authors, NEW at \in Stamps, NEW n \in Stamps \cup {0},
         NEW e, e = [kind |-> kind, by |-> by, at |-> at, list |-> ListOf[<<kind, by, at>>]]
  PROVE  apply(Kept(kind, by, n), e) = Kept(kind, by, Later(at, n))
<1>1. at \in Nat \ {0} /\ n \in Nat /\ e.at = at /\ e.list = ListOf[<<kind, by, at>>]
  BY NotifierAssumption
<1>2. Kept(kind, by, n).at = n
  BY <1>1 DEF Kept, Blank
<1>3. CASE at > n
  BY <1>1, <1>2, <1>3 DEF apply, Kept, Later
<1>4. CASE ~(at > n)
  BY <1>1, <1>2, <1>4 DEF apply, Later
<1> QED
  BY <1>3, <1>4

LEMMA ReceiveKeeps ==
  ASSUME ListInv, NEW e \in Events, Receive(e)
  PROVE  ListInv'
<1>1. PICK kind \in Kinds, by \in Authors, at \in Stamps :
        e = [kind |-> kind, by |-> by, at |-> at, list |-> ListOf[<<kind, by, at>>]]
  BY DEF Events
<1>2. e.kind = kind /\ e.by = by /\ e.at = at
  BY <1>1
<1>3. top' = [top EXCEPT ![<<kind, by>>] = Later(at, @)] /\ key' = key
  BY <1>2 DEF Receive, Later
<1>3a. /\ <<kind, by>> \in Kinds \X Authors /\ by # Nobody /\ top[<<kind, by>>] \in Stamps \cup {0}
      /\ top'[<<kind, by>>] = Later(at, top[<<kind, by>>])
  BY <1>3, NotifierAssumption DEF ListInv
<1>4. /\ top' \in [Kinds \X Authors -> Stamps \cup {0}]
      /\ \A x \in Kinds \X Authors : x # <<kind, by>> => top'[x] = top[x]
  BY <1>3, <1>3a DEF ListInv, Later
<1>5. Current("outbox", Operator, operator)'
  <2>1. CASE kind = "outbox" /\ by = Operator
    <3>1. operator' = apply(operator, e) /\ operator = Kept(kind, by, top[<<kind, by>>])
      BY <1>2, <1>3a, <2>1 DEF Receive, ListInv, ListsAreCurrent, Current, Kept
    <3>2. operator' = Kept(kind, by, top'[<<kind, by>>])
      BY <1>1, <1>3a, <3>1, ApplyKeepsNewest
    <3> QED
      BY <1>3, <1>3a, <2>1, <3>2 DEF Current, Kept
  <2>2. CASE ~(kind = "outbox" /\ by = Operator)
    <3>1. operator' = operator /\ <<"outbox", Operator>> # <<kind, by>> /\ <<"outbox", Operator>> \in Kinds \X Authors
      BY <1>2, <2>2 DEF Receive, Kinds, Authors
    <3> QED
      BY <1>4, <3>1 DEF Current, ListInv, ListsAreCurrent
  <2> QED
    BY <2>1, <2>2
<1>6. Current("outbox", key, user)'
  <2>1. CASE kind = "outbox" /\ by = key
    <3>1. user' = apply(user, e) /\ user = Kept(kind, by, top[<<kind, by>>])
      BY <1>2, <1>3a, <2>1 DEF Receive, ListInv, ListsAreCurrent, Current, Kept
    <3>2. user' = Kept(kind, by, top'[<<kind, by>>])
      BY <1>1, <1>3a, <3>1, ApplyKeepsNewest
    <3> QED
      BY <1>3, <1>3a, <2>1, <3>2 DEF Current, Kept
  <2>2. CASE ~(kind = "outbox" /\ by = key)
    <3>1. user' = user /\ <<"outbox", key>> # <<kind, by>> /\ (key # Nobody => <<"outbox", key>> \in Kinds \X Authors)
      BY <1>2, <2>2 DEF Receive, Kinds, Authors, ListInv
    <3> QED
      BY <1>3, <1>4, <3>1 DEF Current, ListInv, ListsAreCurrent
  <2> QED
    BY <2>1, <2>2
<1>7. Current("dm", key, dm)'
  <2>1. CASE kind = "dm" /\ by = key
    <3>1. dm' = apply(dm, e) /\ dm = Kept(kind, by, top[<<kind, by>>])
      BY <1>2, <1>3a, <2>1 DEF Receive, ListInv, ListsAreCurrent, Current, Kept
    <3>2. dm' = Kept(kind, by, top'[<<kind, by>>])
      BY <1>1, <1>3a, <3>1, ApplyKeepsNewest
    <3> QED
      BY <1>3, <1>3a, <2>1, <3>2 DEF Current, Kept
  <2>2. CASE ~(kind = "dm" /\ by = key)
    <3>1. dm' = dm /\ <<"dm", key>> # <<kind, by>> /\ (key # Nobody => <<"dm", key>> \in Kinds \X Authors)
      BY <1>2, <2>2 DEF Receive, Kinds, Authors, ListInv
    <3> QED
      BY <1>3, <1>4, <3>1 DEF Current, ListInv, ListsAreCurrent
  <2> QED
    BY <2>1, <2>2
<1>8. effective' = recompute(user', operator')
  BY DEF Receive
<1> QED
  BY <1>3, <1>4, <1>5, <1>6, <1>7, <1>8 DEF ListInv, ListsAreCurrent, recompute

LEMMA SetKeyKeeps ==
  ASSUME ListInv, NEW k \in Accounts, setPrimaryPubkey(k)
  PROVE  ListInv'
<1>1. /\ key' = k /\ user' = Blank /\ dm' = Blank /\ operator' = operator
      /\ effective' = recompute(user', operator)
      /\ top' = [x \in Kinds \X Authors |-> IF x[2] = Operator THEN top[x] ELSE 0]
  BY DEF setPrimaryPubkey
<1>2. /\ <<"outbox", Operator>> \in Kinds \X Authors /\ <<"outbox", k>> \in Kinds \X Authors /\ <<"dm", k>> \in Kinds \X Authors
      /\ k # Operator /\ k # Nobody
  BY NotifierAssumption DEF Kinds, Authors
<1>3. top'[<<"outbox", Operator>>] = top[<<"outbox", Operator>>] /\ top'[<<"outbox", k>>] = 0 /\ top'[<<"dm", k>>] = 0
  BY <1>1, <1>2
<1>4. top' \in [Kinds \X Authors -> Stamps \cup {0}]
  BY <1>1 DEF ListInv
<1>5. Current("outbox", Operator, operator)'
  BY <1>1, <1>3 DEF Current, ListInv, ListsAreCurrent
<1>6. Current("outbox", key, user)' /\ Current("dm", key, dm)'
  BY <1>1, <1>2, <1>3 DEF Current
<1> QED
  BY <1>1, <1>4, <1>5, <1>6 DEF ListInv, ListsAreCurrent, recompute

\* The relay lists are the newest of the right key, in whatever order the relays
\* serve them and however often the key changes (nostr/outbox.ts).
THEOREM ListsStayCurrent == NotifierSpec => []ListsAreCurrent
<1>1. NotifierInit => ListInv
  <2> SUFFICES ASSUME NotifierInit PROVE ListInv
    OBVIOUS
  <2>1. <<"outbox", Operator>> \in Kinds \X Authors
    BY DEF Kinds, Authors
  <2>2. /\ key = Nobody /\ user = Blank /\ operator = Blank /\ dm = Blank /\ effective = Fallback
        /\ top = [x \in Kinds \X Authors |-> 0]
    BY DEF NotifierInit
  <2>3. effective = recompute(user, operator)
    BY <2>2 DEF recompute, Blank
  <2>4. top[<<"outbox", Operator>>] = 0 /\ top \in [Kinds \X Authors -> Stamps \cup {0}]
    BY <2>1, <2>2
  <2> QED
    BY <2>2, <2>3, <2>4 DEF ListInv, ListsAreCurrent, Current
<1>2. ListInv /\ [NotifierNext]_nvars => ListInv'
  <2> SUFFICES ASSUME ListInv, [NotifierNext]_nvars PROVE ListInv'
    OBVIOUS
  <2>1. CASE UNCHANGED <<key, user, operator, dm, effective, top>>
    BY <2>1 DEF ListInv, ListsAreCurrent, Current, recompute
  <2> QED
    BY <2>1, ReceiveKeeps, SetKeyKeeps DEF NotifierNext, notify, Woken, Published, stop, nvars, lists
<1>3. ListInv => ListsAreCurrent
  BY DEF ListInv
<1> QED
  BY <1>1, <1>2, <1>3, PTL DEF NotifierSpec

-----------------------------------------------------------------------------
\* A set of numbers with a member has a least one.
LEMMA LeastNumber ==
  ASSUME NEW S \in SUBSET Nat, S # {}
  PROVE  \E m \in S : \A n \in S : m <= n
<1> DEFINE R == {ss \in Nat \X Nat : ss[1] < ss[2]}
<1>1. IsWellFoundedOn(R, Nat)
  BY NatLessThanWellFounded, Zenon DEF OpToRel
<1>2. \A x, y \in Nat : (<<y, x>> \in R) <=> y < x
  OBVIOUS
<1> HIDE DEF R
<1>3. PICK m \in S : \A n \in S : ~(<<n, m>> \in R)
  BY <1>1, WFMin
<1>4. \A n \in S : m <= n
  <2> SUFFICES ASSUME NEW n \in S PROVE m <= n
    OBVIOUS
  <2>1. n \in Nat /\ m \in Nat
    OBVIOUS
  <2>2. ~(n < m)
    BY <1>2, <1>3, <2>1
  <2> QED
    BY <2>1, <2>2
<1> QED
  BY <1>4

-----------------------------------------------------------------------------
(* The queue.                                                              *)

\* What the queue holds.
Item == [n : Nat, age : 0..Grace]

\* The queue q holds the last Len(q) of the notifications up to the count c, all
\* of them after the one numbered s.
Newest(q, c, s) ==
  /\ q \in Seq(Item) /\ c \in Nat /\ s \in Nat /\ s <= c
  /\ \A i \in 1..Len(q) : q[i].n = c - (Len(q) - i) /\ q[i].n > s

\* QueueMoves, with the types it rests on.
QueueInv ==
  /\ Newest(queue, notes, sent) /\ Len(queue) <= MaxQueue
  /\ queue # <<>> => drain # "idle" /\ ~stopped

\* The end of a queue, from its item f on, is the queue after the item before f.
LEMMA NewestRest ==
  ASSUME NEW q, NEW c, NEW s, Newest(q, c, s), NEW f \in 1..(Len(q) + 1)
  PROVE  LET r == SubSeq(q, f, Len(q))
         IN  /\ Len(r) <= Len(q)
             /\ Newest(r, c, IF f > 1 THEN q[f - 1].n ELSE s)
<1> DEFINE r == SubSeq(q, f, Len(q))
           t == IF f > 1 THEN q[f - 1].n ELSE s
<1>1. q \in Seq(Item) /\ Len(q) \in Nat /\ c \in Nat /\ s \in Nat /\ s <= c
  BY LenProperties DEF Newest
<1>2a. \A i \in 1..Len(q) : q[i] \in Item
  BY <1>1, ElementOfSeq
<1>2. \A i \in 1..Len(q) : q[i] \in Item /\ q[i].n \in Nat /\ q[i].n = c - (Len(q) - i)
  BY <1>2a DEF Newest, Item
<1>3. /\ r \in Seq(Item) /\ Len(r) = Len(q) - f + 1
      /\ \A i \in 1..Len(r) : r[i] = q[f + i - 1]
  <2>1. f \in Int /\ Len(q) \in Int /\ \A i \in f..Len(q) : q[i] \in Item
    BY <1>1, <1>2
  <2>2. /\ r \in Seq(Item)
        /\ Len(r) = IF f <= Len(q) THEN Len(q) - f + 1 ELSE 0
        /\ \A i \in 1..(Len(q) - f + 1) : r[i] = q[f + i - 1]
    BY <2>1, SubSeqProperties
  <2> QED
    BY <1>1, <2>2
<1>4. t \in Nat /\ t <= c /\ (f > 1 => t = c - (Len(q) - (f - 1)))
  <2>1. CASE f > 1
    <3>1. f - 1 \in 1..Len(q)
      BY <1>1, <2>1
    <3>2. t = q[f - 1].n
      BY <2>1
    <3>3. q[f - 1].n \in Nat /\ q[f - 1].n = c - (Len(q) - (f - 1))
      BY <1>2, <3>1
    <3> HIDE DEF t
    <3>4. t \in Nat /\ t = c - (Len(q) - (f - 1))
      BY <3>2, <3>3
    <3>5. t <= c
      BY <1>1, <3>1, <3>4
    <3> QED
      BY <3>4, <3>5
  <2>2. CASE ~(f > 1)
    BY <1>1, <2>2
  <2> QED
    BY <2>1, <2>2
<1>5. ASSUME NEW i \in 1..Len(r) PROVE r[i].n = c - (Len(r) - i) /\ r[i].n > t
  <2>1. f + i - 1 \in 1..Len(q) /\ r[i] = q[f + i - 1] /\ i \in Nat /\ i >= 1
    BY <1>1, <1>3, <1>5
  <2>2. q[f + i - 1].n = c - (Len(q) - (f + i - 1)) /\ q[f + i - 1].n > s
    BY <1>1, <2>1 DEF Newest
  <2>3. r[i].n = c - (Len(r) - i)
    BY <1>1, <1>3, <2>1, <2>2
  <2>4. r[i].n > t
    BY <1>1, <1>3, <1>4, <2>1, <2>2
  <2> QED
    BY <2>3, <2>4
<1>6. Newest(r, c, t)
  BY <1>1, <1>3, <1>4, <1>5 DEF Newest
<1> QED
  BY <1>1, <1>3, <1>6

\* Without its head.
LEMMA NewestTail ==
  ASSUME NEW q, NEW c, NEW s, Newest(q, c, s), q # <<>>
  PROVE  /\ Len(q) \in Nat \ {0} /\ Len(Tail(q)) = Len(q) - 1 /\ Head(q) = q[1]
         /\ Newest(Tail(q), c, q[1].n)
<1>1. q \in Seq(Item)
  BY DEF Newest
<1>2. Len(q) \in Nat \ {0}
  BY <1>1, EmptySeq
<1>3. Len(Tail(q)) = Len(q) - 1 /\ Head(q) = q[1]
  BY <1>1, HeadTailProperties
<1>4. Tail(q) = SubSeq(q, 2, Len(q))
  BY <1>1, TailIsSubSeq
<1> DEFINE f == 2
<1>5. f \in 1..(Len(q) + 1) /\ (IF f > 1 THEN q[f - 1].n ELSE s) = q[1].n
  BY <1>2
<1>6. Newest(SubSeq(q, f, Len(q)), c, IF f > 1 THEN q[f - 1].n ELSE s)
  <2> HIDE DEF f
  <2> QED
    BY <1>5, NewestRest
<1> QED
  BY <1>2, <1>3, <1>4, <1>5, <1>6

\* One turn of the drain loop over the queue q.
LEMMA TurnKeeps ==
  ASSUME NEW q, NEW c, Newest(q, c, sent), Len(q) <= MaxQueue, stopped => q = <<>>,
         turn(q), notes' = c, stopped' = stopped
  PROVE  QueueInv'
<1>1. Len(q) \in Nat /\ q \in Seq(Item) /\ MaxQueue \in Nat
  BY LenProperties, NotifierAssumption DEF Newest
<1>2. CASE ~stopped /\ q # <<>> /\ dm.list # {}
  <2>1. queue' = Tail(q) /\ drain' = "sending" /\ sent' = Head(q).n
    BY <1>2 DEF turn
  <2>4. Len(queue') <= Len(q) /\ Newest(queue', c, sent')
    BY <1>1, <1>2, <2>1, NewestTail
  <2>5. Len(queue') \in Nat
    BY <2>4, LenProperties DEF Newest
  <2>6. Newest(queue', notes', sent') /\ Len(queue') <= MaxQueue
    BY <1>1, <2>4, <2>5
  <2> QED
    BY <1>2, <2>1, <2>6 DEF QueueInv, Newest
<1>3. CASE ~(~stopped /\ q # <<>> /\ dm.list # {})
  <2> DEFINE young == {i \in 1..Len(q) : q[i].age < Grace}
             first == IF young = {} THEN Len(q) + 1
                      ELSE CHOOSE i \in young : \A j \in young : i <= j
             left == SubSeq(q, first, Len(q))
  <2>1. /\ queue' = left
        /\ drain' = IF left = <<>> \/ stopped THEN "idle" ELSE "sleeping"
        /\ sent' = IF first > 1 THEN q[first - 1].n ELSE sent
    BY <1>3 DEF turn
  <2>2. first \in 1..(Len(q) + 1)
    <3>1. CASE young = {}
      BY <1>1, <3>1
    <3>2. CASE young # {}
      <4>1. young \in SUBSET Nat /\ young \subseteq 1..(Len(q) + 1)
        BY <1>1
      <4> HIDE DEF young
      <4>2. \E i \in young : \A j \in young : i <= j
        BY <3>2, <4>1, LeastNumber
      <4>3. first \in young
        BY <3>2, <4>2
      <4> QED
        BY <4>1, <4>3
    <3> QED
      BY <3>1, <3>2
  <2> HIDE DEF first
  <2>3. Len(queue') <= Len(q) /\ Newest(queue', c, sent')
    BY <2>1, <2>2, NewestRest
  <2>4. Len(queue') \in Nat
    BY <2>3, LenProperties DEF Newest
  <2>5. Newest(queue', notes', sent') /\ Len(queue') <= MaxQueue
    BY <1>1, <2>3, <2>4
  <2>6. queue' # <<>> => drain' # "idle" /\ ~stopped'
    <3>1. CASE stopped
      <4>1. Len(q) = 0
        BY <3>1, EmptySeq
      <4>2. Len(queue') = 0 /\ queue' \in Seq(Item)
        BY <2>3, <2>4, <4>1 DEF Newest
      <4> QED
        BY <4>2, EmptySeq
    <3>2. CASE ~stopped
      BY <2>1, <3>2
    <3> QED
      BY <3>1, <3>2
  <2> QED
    BY <2>5, <2>6 DEF QueueInv, Newest
<1> QED
  BY <1>2, <1>3

\* A new notification at the end of the queue.
LEMMA EnqueueKeeps ==
  ASSUME QueueInv, NEW q, q = enqueued(queue, [n |-> notes + 1, age |-> 0])
  PROVE  Newest(q, notes + 1, sent) /\ Len(q) <= MaxQueue
<1> DEFINE b == IF Len(queue) >= MaxQueue THEN Tail(queue) ELSE queue
           item == [n |-> notes + 1, age |-> 0]
<1>1. /\ Len(queue) \in Nat /\ MaxQueue \in Nat \ {0} /\ Grace \in Nat /\ notes \in Nat /\ sent \in Nat
      /\ sent <= notes /\ queue \in Seq(Item) /\ Len(queue) <= MaxQueue
  BY LenProperties, NotifierAssumption DEF QueueInv, Newest
<1>2. b \in Seq(Item) /\ Len(b) \in Nat /\ Len(b) < MaxQueue
      /\ \A i \in 1..Len(b) : b[i].n = notes - (Len(b) - i) /\ b[i].n > sent
  <2>1. CASE Len(queue) >= MaxQueue
    <3>1. queue # <<>>
      BY <1>1, <2>1
    <3>3. Newest(Tail(queue), notes, queue[1].n)
      BY <3>1, NewestTail DEF QueueInv
    <3>4. queue[1].n > sent /\ queue[1].n \in Nat
      BY <1>1, <2>1, <3>3 DEF QueueInv, Newest
    <3>5. Tail(queue) \in Seq(Item) /\ Len(Tail(queue)) = Len(queue) - 1
      BY <1>1, <3>1, HeadTailProperties
    <3>6. ASSUME NEW i \in 1..(Len(queue) - 1)
          PROVE  Tail(queue)[i].n = notes - ((Len(queue) - 1) - i) /\ Tail(queue)[i].n > sent
      <4>1. Tail(queue)[i].n = notes - ((Len(queue) - 1) - i) /\ Tail(queue)[i].n > queue[1].n
        BY <3>3, <3>5, <3>6 DEF Newest
      <4> QED
        BY <1>1, <3>4, <4>1
    <3>7. b = Tail(queue) /\ Len(b) = Len(queue) - 1
      BY <2>1, <3>5
    <3> HIDE DEF b
    <3>8. Len(b) \in Nat /\ Len(b) < MaxQueue
      BY <1>1, <2>1, <3>7
    <3>9. b \in Seq(Item)
      BY <3>5, <3>7
    <3>10. \A i \in 1..Len(b) : b[i].n = notes - (Len(b) - i) /\ b[i].n > sent
      BY <3>6, <3>7
    <3> QED
      BY <3>8, <3>9, <3>10
  <2>2. CASE ~(Len(queue) >= MaxQueue)
    BY <1>1, <2>2 DEF QueueInv, Newest
  <2> QED
    BY <2>1, <2>2
<1>3. q = Append(b, item) /\ item \in Item
  BY <1>1 DEF enqueued, Item
<1> HIDE DEF b, item
<1>4. /\ q \in Seq(Item) /\ Len(q) = Len(b) + 1
      /\ \A i \in 1..Len(b) : q[i] = b[i]
      /\ q[Len(b) + 1] = item
  <2>1. b \in Seq(Item) /\ item \in Item
    BY <1>2, <1>3
  <2>2. /\ Append(b, item) \in Seq(Item) /\ Len(Append(b, item)) = Len(b) + 1
        /\ \A i \in 1..Len(b) : Append(b, item)[i] = b[i]
        /\ Append(b, item)[Len(b) + 1] = item
    BY <2>1, AppendProperties
  <2> QED
    BY <1>3, <2>2
<1>4a. Len(b) \in Nat /\ Len(q) = Len(b) + 1 /\ notes \in Nat /\ sent \in Nat /\ sent <= notes
  BY <1>1, <1>2, <1>4
<1>5. ASSUME NEW i \in 1..Len(q) PROVE q[i].n = (notes + 1) - (Len(q) - i) /\ q[i].n > sent
  <2>1. CASE i = Len(b) + 1
    <3>1. q[i].n = notes + 1
      BY <1>4, <2>1 DEF item
    <3> QED
      BY <1>4a, <2>1, <3>1
  <2>2. CASE i # Len(b) + 1
    <3>1. i \in 1..Len(b)
      BY <1>2, <1>4, <1>5, <2>2
    <3>2. q[i].n = notes - (Len(b) - i) /\ q[i].n > sent
      BY <1>2, <1>4, <3>1
    <3>3. notes - (Len(b) - i) = (notes + 1) - (Len(q) - i)
      BY <1>4a, <3>1
    <3> QED
      BY <3>2, <3>3
  <2> QED
    BY <2>1, <2>2
<1>6. notes + 1 \in Nat /\ sent <= notes + 1 /\ Len(q) <= MaxQueue
  BY <1>1, <1>2, <1>4a
<1> QED
  BY <1>1, <1>4, <1>5, <1>6 DEF Newest

\* The queue of the notifier is bounded, ordered, holds the newest notifications and
\* is never left without its loop, whatever lists arrive and whenever the
\* notifier is stopped (notifier.ts).
THEOREM QueueAlwaysMoves == NotifierSpec => []QueueMoves
<1>1. NotifierInit => QueueInv
  BY EmptySeq, NotifierAssumption DEF NotifierInit, QueueInv, Newest
<1>2. QueueInv /\ [NotifierNext]_nvars => QueueInv'
  <2> SUFFICES ASSUME QueueInv, [NotifierNext]_nvars PROVE QueueInv'
    OBVIOUS
  <2>0. Newest(queue, notes, sent) /\ Len(queue) <= MaxQueue /\ (stopped => queue = <<>>)
    BY DEF QueueInv
  <2>1. CASE UNCHANGED <<queue, drain, stopped, notes, sent>>
    BY <2>1 DEF QueueInv, Newest
  <2>2. CASE notify
    <3> DEFINE q == enqueued(queue, [n |-> notes + 1, age |-> 0])
    <3>1. /\ ~stopped /\ stopped' = stopped /\ notes' = notes + 1
          /\ IF drain = "idle" THEN turn(q) ELSE queue' = q /\ UNCHANGED <<drain, sent>>
      BY <2>2 DEF notify
    <3> HIDE DEF q
    <3>2. Newest(q, notes + 1, sent) /\ Len(q) <= MaxQueue
      BY EnqueueKeeps DEF q
    <3>3. CASE drain = "idle"
      BY <3>1, <3>2, <3>3, TurnKeeps
    <3>4. CASE drain # "idle"
      BY <3>1, <3>2, <3>4 DEF QueueInv, Newest
    <3> QED
      BY <3>3, <3>4
  <2>3. CASE Woken
    <3> DEFINE older(i) == [queue[i] EXCEPT !.age = IF queue[i].age < Grace THEN queue[i].age + 1 ELSE Grace]
               q == [i \in 1..Len(queue) |-> older(i)]
    <3>1. turn(q) /\ notes' = notes /\ stopped' = stopped
      BY <2>3 DEF Woken
    <3>2. queue \in Seq(Item) /\ Len(queue) \in Nat /\ Grace \in Nat
      BY <2>0, LenProperties, NotifierAssumption DEF Newest
    <3>3. ASSUME NEW i \in 1..Len(queue) PROVE older(i) \in Item /\ older(i).n = queue[i].n
      <4>1. queue[i] \in Item
        BY <3>2, ElementOfSeq
      <4>2. queue[i].age \in 0..Grace /\ queue[i].n \in Nat
        BY <4>1 DEF Item
      <4>3. (IF queue[i].age < Grace THEN queue[i].age + 1 ELSE Grace) \in 0..Grace
        BY <3>2, <4>2
      <4> QED
        BY <4>1, <4>2, <4>3, SMTT(40) DEF Item
    <3> HIDE DEF older
    <3>4. q \in Seq(Item) /\ Len(q) = Len(queue)
      BY <3>2, <3>3, IsASeq, LenProperties
    <3>5. Newest(q, notes, sent)
      BY <2>0, <3>3, <3>4 DEF Newest
    <3>6. stopped => q = <<>>
      <4>1. stopped => Len(queue) = 0
        BY <2>0, EmptySeq
      <4> QED
        BY <3>4, <4>1, EmptySeq
    <3> HIDE DEF q
    <3> QED
      BY <2>0, <3>1, <3>4, <3>5, <3>6, TurnKeeps
  <2>4. CASE Published
    <3>1. turn(queue) /\ notes' = notes /\ stopped' = stopped
      BY <2>4 DEF Published
    <3> QED
      BY <2>0, <3>1, TurnKeeps
  <2>5. CASE stop
    <3>1. queue' = <<>> /\ notes' = notes /\ sent' = sent
      BY <2>5 DEF stop
    <3>2. Newest(<<>>, notes, sent) /\ Len(<<>>) = 0
      BY <2>0, EmptySeq DEF Newest
    <3> QED
      BY <3>1, <3>2, NotifierAssumption DEF QueueInv, Newest
  <2> QED
    BY <2>1, <2>2, <2>3, <2>4, <2>5 DEF NotifierNext, Receive, setPrimaryPubkey, nvars
<1>3. QueueInv => QueueMoves
  BY DEF QueueInv, Newest, QueueMoves
<1> QED
  BY <1>1, <1>2, <1>3, PTL DEF NotifierSpec

-----------------------------------------------------------------------------
(* The gate: the failures it counts keep up with the bad openings.         *)

\* A power of two counts the subsets of an interval; a longer interval has more.
LEMMA PowerOfTwo ==
  ASSUME NEW m \in Nat, NEW n \in Nat, m <= n
  PROVE  2^m \in Nat \ {0} /\ 2^n \in Nat \ {0} /\ 2^m <= 2^n
<1>1. ASSUME NEW k \in Nat
      PROVE  IsFiniteSet(SUBSET (1..k)) /\ Cardinality(SUBSET (1..k)) = 2^k
  <2>1. IsFiniteSet(1..k) /\ Cardinality(1..k) = k
    BY FS_Interval
  <2>2. IsFiniteSet(SUBSET (1..k)) /\ Cardinality(SUBSET (1..k)) = 2^Cardinality(1..k)
    BY <2>1, FS_SUBSET
  <2> QED
    BY <2>1, <2>2
<1>2. ASSUME NEW k \in Nat PROVE 2^k \in Nat \ {0}
  <2> DEFINE S == SUBSET (1..k)
  <2>1. IsFiniteSet(S) /\ Cardinality(S) = 2^k /\ S # {}
    BY <1>1
  <2> HIDE DEF S
  <2>2. Cardinality(S) \in Nat
    BY <2>1, FS_CardinalityType
  <2>3. Cardinality(S) # 0
    BY <2>1, FS_EmptySet
  <2> QED
    BY <2>1, <2>2, <2>3
<1>3. 2^m <= 2^n
  <2> DEFINE S == SUBSET (1..m)
             T == SUBSET (1..n)
  <2>1. IsFiniteSet(T) /\ Cardinality(T) = 2^n /\ Cardinality(S) = 2^m
    BY <1>1
  <2>2. S \in SUBSET T
    OBVIOUS
  <2> HIDE DEF S, T
  <2>3. Cardinality(S) <= Cardinality(T)
    BY <2>1, <2>2, FS_Subset
  <2> QED
    BY <2>1, <2>3
<1> QED
  BY <1>2, <1>3

\* The shortest wait after n failures.
Least(n) == (4 * Backoff(n) + 4) \div 5

\* Multiplication keeps the order.
LEMMA TimesMonotone ==
  ASSUME NEW a \in Nat, NEW b \in Nat, NEW c \in Nat, b <= c
  PROVE  a * b \in Nat /\ a * c \in Nat /\ a * b <= a * c
OBVIOUS

\* The backoff grows with the count, from one tick up to MaxDelay.
LEMMA BackoffGrows ==
  ASSUME NEW m \in Nat \ {0}, NEW n \in Nat \ {0}, m <= n
  PROVE  /\ Backoff(m) \in 1..MaxDelay /\ Backoff(n) \in 1..MaxDelay
         /\ Backoff(m) <= Backoff(n)
<1>1. Base \in Nat \ {0} /\ MaxDelay \in Nat /\ Base <= MaxDelay
  BY RelayGateAssumption
<1>2. m - 1 \in Nat /\ n - 1 \in Nat /\ m - 1 <= n - 1
  OBVIOUS
<1> DEFINE a == 2^(m - 1)
           b == 2^(n - 1)
<1>3. a \in Nat \ {0} /\ b \in Nat \ {0} /\ a <= b
  BY <1>2, PowerOfTwo
<1>4. Backoff(m) = LessOf(Base * a, MaxDelay) /\ Backoff(n) = LessOf(Base * b, MaxDelay)
  BY DEF Backoff
<1> HIDE DEF a, b
<1>5. Base * a \in Nat /\ Base * b \in Nat /\ Base * a <= Base * b /\ Base * 1 <= Base * a
  BY <1>1, <1>3, TimesMonotone
<1> QED
  BY <1>1, <1>4, <1>5 DEF LessOf

\* And so does the shortest wait.
LEMMA LeastGrows ==
  ASSUME NEW m \in Nat \ {0}, NEW n \in Nat \ {0}, m <= n
  PROVE  /\ Least(m) \in Nat \ {0} /\ Least(m) <= Longest /\ Least(m) <= Least(n)
         /\ Least(n) \in Nat \ {0} /\ Longest \in Nat
<1>1. MaxDelay \in Nat
  BY RelayGateAssumption
<1>2. /\ Backoff(m) \in 1..MaxDelay /\ Backoff(n) \in 1..MaxDelay /\ Backoff(m) <= Backoff(n)
  BY BackoffGrows
<1> QED
  BY <1>1, <1>2 DEF Least, Longest

\* A penalty is at least the shortest wait for its count.
LEMMA Penalty ==
  ASSUME NEW n \in Nat \ {0}, NEW w \in Jittered(Backoff(n))
  PROVE  w \in 1..Longest /\ w >= Least(n)
<1>1. MaxDelay \in Nat /\ Backoff(n) \in 1..MaxDelay
  BY RelayGateAssumption, BackoffGrows
<1> QED
  BY <1>1 DEF Jittered, Least, Longest

\* Counting keeps the count in its bounds and in its order.
LEMMA CountedFacts ==
  ASSUME NEW m \in 0..FailCap, NEW n \in 0..FailCap
  PROVE  /\ Counted(m) \in 1..FailCap /\ Counted(m) >= m
         /\ m <= n => Counted(m) <= Counted(n)
BY RelayGateAssumption DEF Counted, LessOf

\* An attempt or a connection.
BusyInv ==
  /\ sock = "opening" => joined # {} /\ reports = {} /\ upSince = Down /\ wait = 0
  /\ sock = "open" => reports = {} /\ wait = 0 /\ (upSince = Stable => bad = 0)
  /\ sock # "none" => failures >= bad /\ (bad > 0 => rest >= Least(bad))

\* An attempt has failed and not everyone has said so.
ReportInv ==
  (sock = "none" /\ reports # {}) =>
     /\ bad > 0
     /\ IF wait = 0 THEN Counted(failures) >= bad
        ELSE failures >= bad /\ wait + rest >= Least(bad)

\* Nobody is connected, and the gate knows, or it has yet to see that a
\* connection is lost: it will before two ticks are over.
IdleInv ==
  (sock = "none" /\ reports = {}) =>
     IF upSince # Down
     THEN bad > 0 => /\ upSince < Stable /\ (upSince + 1 < Stable \/ asked # Tickers)
                     /\ Counted(failures) >= bad
     ELSE failures >= bad /\ (bad > 0 => wait + rest >= Least(bad))

\* The inductive invariant of the gate.
GateInv == GateTypeOK /\ BusyInv /\ ReportInv /\ IdleInv

\* The numbers of the gate.
LEMMA GateNumbers ==
  ASSUME GateTypeOK
  PROVE  /\ Stable \in Nat \ {0} /\ FailCap \in Nat \ {0} /\ Longest \in Nat /\ Down = Stable + 1
         /\ failures \in 0..FailCap /\ bad \in 0..FailCap /\ wait \in 0..Longest /\ rest \in 0..Longest
         /\ upSince \in 0..Down
         /\ failures \in Nat /\ bad \in Nat /\ wait \in Nat /\ rest \in Nat /\ upSince \in Nat
<1>1. Longest \in Nat
  BY RelayGateAssumption DEF Longest
<1> QED
  BY <1>1, RelayGateAssumption DEF GateTypeOK, Down

\* A question of a caller who may go through.
LEMMA AskKeeps ==
  ASSUME GateInv, Tickers # {}, NEW c \in Callers, Ask(c)
  PROVE  /\ GateInv'
         /\ sock = "none" /\ sock' = "opening" /\ bad > 0 => rest >= Least(bad)
<1>1. GateTypeOK
  BY DEF GateInv
<1>2. /\ Stable \in Nat \ {0} /\ FailCap \in Nat \ {0} /\ Longest \in Nat /\ Down = Stable + 1
      /\ failures \in 0..FailCap /\ bad \in 0..FailCap /\ wait \in 0..Longest /\ rest \in 0..Longest
      /\ upSince \in 0..Down
      /\ failures \in Nat /\ bad \in Nat /\ wait \in Nat /\ rest \in Nat /\ upSince \in Nat
  BY <1>1, GateNumbers
<1>3. /\ reports = {} /\ reports' = {} /\ bad' = bad /\ rest' = rest
      /\ asked' \subseteq Tickers /\ joined \subseteq Callers /\ sock \in {"none", "opening", "open"}
      /\ look
      /\ IF wait' = 0 /\ sock # "open"
         THEN sock' = "opening" /\ joined' = joined \cup {c}
         ELSE UNCHANGED <<sock, joined>>
  BY <1>1 DEF Ask, GateTypeOK
<1>4. CASE sock = "open"
  <2>1. /\ upSince' = IF upSince = Down THEN 0 ELSE upSince
        /\ failures' = IF upSince # Down /\ upSince >= Stable THEN 0 ELSE failures
        /\ wait' = wait /\ sock' = sock /\ joined' = joined
    BY <1>3, <1>4 DEF look
  <2>2. wait = 0 /\ (upSince = Stable => bad = 0) /\ failures >= bad /\ (bad > 0 => rest >= Least(bad))
    BY <1>4 DEF GateInv, BusyInv
  <2>3. GateTypeOK'
    BY <1>1, <1>2, <1>3, <1>4, <2>1 DEF GateTypeOK
  <2>4. BusyInv' /\ ReportInv' /\ IdleInv'
    <3>1. failures' >= bad /\ (upSince' = Stable => bad = 0)
      BY <1>2, <2>1, <2>2
    <3> QED
      BY <1>3, <1>4, <2>1, <2>2, <3>1 DEF BusyInv, ReportInv, IdleInv, Least, Backoff, LessOf
  <2> QED
    BY <1>4, <2>3, <2>4 DEF GateInv
<1>5. CASE sock = "opening"
  <2>1. upSince = Down /\ wait = 0 /\ joined # {} /\ failures >= bad /\ (bad > 0 => rest >= Least(bad))
    BY <1>5 DEF GateInv, BusyInv
  <2>2. upSince' = Down /\ failures' = failures /\ wait' = 0 /\ sock' = "opening" /\ joined' = joined \cup {c}
    BY <1>3, <1>5, <2>1 DEF look
  <2>3. GateTypeOK'
    BY <1>1, <1>2, <1>3, <2>2 DEF GateTypeOK
  <2>4. BusyInv' /\ ReportInv' /\ IdleInv'
    BY <1>3, <2>1, <2>2 DEF BusyInv, ReportInv, IdleInv, Least, Backoff, LessOf, Down
  <2> QED
    BY <1>5, <2>3, <2>4 DEF GateInv
<1>6. CASE sock = "none" /\ upSince = Down
  <2>1. failures >= bad /\ (bad > 0 => wait + rest >= Least(bad))
    BY <1>3, <1>6 DEF GateInv, IdleInv
  <2>2. /\ upSince' = Down /\ failures' = failures /\ wait' = wait
        /\ IF wait = 0 THEN sock' = "opening" /\ joined' = joined \cup {c}
           ELSE sock' = sock /\ joined' = joined
    BY <1>3, <1>6 DEF look
  <2>3. GateTypeOK'
    BY <1>1, <1>2, <1>3, <2>2 DEF GateTypeOK
  <2>4. wait = 0 => (bad > 0 => rest >= Least(bad))
    BY <1>2, <2>1
  <2>5. BusyInv' /\ ReportInv' /\ IdleInv'
    BY <1>3, <1>6, <2>1, <2>2, <2>4 DEF BusyInv, ReportInv, IdleInv, Least, Backoff, LessOf, Down
  <2> QED
    BY <1>6, <2>2, <2>3, <2>4, <2>5 DEF GateInv
<1>7. CASE sock = "none" /\ upSince # Down /\ upSince >= Stable
  <2>1. bad = 0
    BY <1>2, <1>3, <1>7 DEF GateInv, IdleInv
  <2>2. upSince' = Down /\ failures' = 0 /\ wait' = 0 /\ sock' = "opening" /\ joined' = joined \cup {c}
    BY <1>3, <1>7 DEF look
  <2>3. GateTypeOK'
    BY <1>1, <1>2, <1>3, <2>2 DEF GateTypeOK
  <2>4. BusyInv' /\ ReportInv' /\ IdleInv'
    BY <1>3, <2>1, <2>2 DEF BusyInv, ReportInv, IdleInv, Down
  <2> QED
    BY <2>1, <2>3, <2>4 DEF GateInv
<1>8. CASE sock = "none" /\ upSince # Down /\ ~(upSince >= Stable)
  <2>1. bad > 0 => Counted(failures) >= bad
    BY <1>3, <1>8 DEF GateInv, IdleInv
  <2>2. /\ upSince' = Down /\ failures' = Counted(failures)
        /\ wait' \in Jittered(Backoff(failures'))
    BY <1>3, <1>8 DEF look
  <2>3. failures' \in 1..FailCap /\ failures' \in Nat \ {0} /\ failures' >= bad
    BY <1>2, <2>1, <2>2, CountedFacts
  <2>4. wait' \in 1..Longest /\ wait' >= Least(failures')
    BY <2>2, <2>3, Penalty
  <2>5. sock' = "none" /\ joined' = joined
    BY <1>2, <1>3, <1>8, <2>4
  <2>6. bad > 0 => wait' + rest >= Least(bad)
    <3> SUFFICES ASSUME bad > 0 PROVE wait' + rest >= Least(bad)
      OBVIOUS
    <3>1. Least(bad) \in Nat /\ Least(bad) <= Least(failures') /\ Least(failures') \in Nat
      BY <1>2, <2>3, LeastGrows
    <3> QED
      BY <1>2, <2>4, <3>1
  <2>7. GateTypeOK'
    BY <1>1, <1>2, <1>3, <2>2, <2>3, <2>4, <2>5 DEF GateTypeOK
  <2>8. BusyInv' /\ ReportInv' /\ IdleInv'
    BY <1>3, <2>2, <2>3, <2>5, <2>6 DEF BusyInv, ReportInv, IdleInv, Least, Backoff, LessOf, Down
  <2> QED
    BY <2>5, <2>7, <2>8 DEF GateInv
<1> QED
  BY <1>3, <1>4, <1>5, <1>6, <1>7, <1>8

\* The other steps.
LEMMA GateOthersKeep ==
  ASSUME GateInv, Tickers # {},
         (\E c \in Callers : failed(c)) \/ Opens \/ Refused \/ Lost \/ GateTick
  PROVE  GateInv' /\ ~(sock = "none" /\ sock' = "opening")
<1>1. GateTypeOK
  BY DEF GateInv
<1>2. /\ Stable \in Nat \ {0} /\ FailCap \in Nat \ {0} /\ Longest \in Nat /\ Down = Stable + 1
      /\ failures \in 0..FailCap /\ bad \in 0..FailCap /\ wait \in 0..Longest /\ rest \in 0..Longest
      /\ upSince \in 0..Down
      /\ failures \in Nat /\ bad \in Nat /\ wait \in Nat /\ rest \in Nat /\ upSince \in Nat
  BY <1>1, GateNumbers
<1>3. ASSUME NEW c \in Callers, failed(c) PROVE GateInv' /\ sock' = sock
  <2>1. /\ c \in reports /\ reports' = reports \ {c} /\ upSince' = Down
        /\ UNCHANGED <<sock, joined, asked, bad, rest>>
        /\ IF wait > 0 THEN UNCHANGED <<failures, wait>>
           ELSE failures' = Counted(failures) /\ wait' \in Jittered(Backoff(failures'))
    BY <1>3 DEF failed
  <2>2. sock = "none" /\ bad > 0
    BY <1>1, <2>1 DEF GateInv, BusyInv, ReportInv, GateTypeOK
  <2>3. /\ failures' \in 0..FailCap /\ failures' >= bad /\ wait' \in 1..Longest
        /\ wait' + rest >= Least(bad)
    <3>1. CASE wait > 0
      BY <1>2, <2>1, <2>2, <3>1 DEF GateInv, ReportInv
    <3>2. CASE ~(wait > 0)
      <4>1. wait = 0 /\ Counted(failures) >= bad
        BY <1>2, <2>1, <2>2, <3>2 DEF GateInv, ReportInv
      <4>2. failures' \in 1..FailCap /\ failures' \in Nat \ {0} /\ failures' >= bad
        BY <1>2, <2>1, <3>2, <4>1, CountedFacts
      <4>3. wait' \in 1..Longest /\ wait' >= Least(failures')
        BY <2>1, <3>2, <4>2, Penalty
      <4>4. Least(bad) \in Nat /\ Least(bad) <= Least(failures') /\ Least(failures') \in Nat
        BY <1>2, <2>2, <4>2, LeastGrows
      <4> QED
        BY <1>2, <4>2, <4>3, <4>4
    <3> QED
      BY <3>1, <3>2
  <2>4. GateTypeOK'
    BY <1>1, <1>2, <2>1, <2>3 DEF GateTypeOK
  <2>5. wait' # 0 /\ upSince' = Down
    BY <1>2, <2>1, <2>3
  <2>6. BusyInv' /\ ReportInv' /\ IdleInv'
    BY <2>1, <2>2, <2>3, <2>5 DEF BusyInv, ReportInv, IdleInv, Least, Backoff, LessOf, Down
  <2> QED
    BY <2>1, <2>4, <2>6 DEF GateInv
<1>4. CASE Opens
  <2>1. /\ sock = "opening" /\ sock' = "open" /\ joined' = {}
        /\ upSince' = IF joined \cap Tickers # {} /\ upSince = Down THEN 0 ELSE upSince
        /\ UNCHANGED <<failures, wait, reports, asked, bad, rest>>
    BY <1>4 DEF Opens
  <2>2. upSince = Down /\ reports = {} /\ wait = 0 /\ failures >= bad /\ (bad > 0 => rest >= Least(bad))
    BY <2>1 DEF GateInv, BusyInv
  <2>3. GateTypeOK'
    BY <1>1, <1>2, <2>1, <2>2 DEF GateTypeOK
  <2>4. upSince' # Stable
    BY <1>2, <2>1, <2>2
  <2>5. BusyInv' /\ ReportInv' /\ IdleInv'
    BY <2>1, <2>2, <2>4 DEF BusyInv, ReportInv, IdleInv, Least, Backoff, LessOf
  <2> QED
    BY <2>1, <2>3, <2>5 DEF GateInv
<1>5. CASE Refused
  <2>1. /\ sock = "opening" /\ sock' = "none" /\ reports' = joined /\ joined' = {}
        /\ bad' = Counted(bad) /\ rest' = 0
        /\ UNCHANGED <<failures, wait, upSince, asked>>
    BY <1>5 DEF Refused
  <2>2. joined # {} /\ wait = 0 /\ failures >= bad
    BY <2>1 DEF GateInv, BusyInv
  <2>3. bad' \in 1..FailCap /\ Counted(failures) >= bad'
    BY <1>2, <2>1, <2>2, CountedFacts
  <2>4. GateTypeOK'
    BY <1>1, <1>2, <2>1, <2>3 DEF GateTypeOK
  <2>5. BusyInv' /\ IdleInv'
    BY <2>1, <2>2 DEF BusyInv, IdleInv
  <2>6. ReportInv'
    BY <1>2, <2>1, <2>2, <2>3 DEF ReportInv, Counted, LessOf
  <2> QED
    BY <2>1, <2>4, <2>5, <2>6 DEF GateInv
<1>6. CASE Lost
  <2>1. /\ sock = "open" /\ sock' = "none"
        /\ UNCHANGED <<failures, wait, upSince, joined, reports, asked>>
    BY <1>6 DEF Lost
  <2>2. reports = {} /\ wait = 0 /\ failures >= bad /\ (bad > 0 => rest >= Least(bad))
    BY <2>1 DEF GateInv, BusyInv
  <2>3. CASE upSince = Down
    <3>1. bad' = bad /\ rest' = rest
      BY <1>6, <2>3 DEF Lost
    <3>2. GateTypeOK'
      BY <1>1, <2>1, <3>1 DEF GateTypeOK
    <3>3. bad > 0 => wait + rest >= Least(bad)
      BY <1>2, <2>2
    <3>4. BusyInv' /\ ReportInv' /\ IdleInv'
      BY <2>1, <2>2, <2>3, <3>1, <3>3 DEF BusyInv, ReportInv, IdleInv, Least, Backoff, LessOf, Down
    <3> QED
      BY <2>1, <3>2, <3>4 DEF GateInv
  <2>4. CASE upSince # Down /\ upSince + 1 < Stable
    <3>1. bad' = Counted(bad) /\ rest' = 0
      BY <1>6, <2>4 DEF Lost
    <3>2. bad' \in 1..FailCap /\ Counted(failures) >= bad'
      BY <1>2, <2>2, <3>1, CountedFacts
    <3>3. GateTypeOK'
      BY <1>1, <1>2, <2>1, <3>1, <3>2 DEF GateTypeOK
    <3>4. upSince < Stable
      BY <1>2, <2>4
    <3>5. BusyInv' /\ ReportInv' /\ IdleInv'
      BY <2>1, <2>2, <2>4, <3>2, <3>4 DEF BusyInv, ReportInv, IdleInv, Counted, LessOf, Down
    <3> QED
      BY <2>1, <3>3, <3>5 DEF GateInv
  <2>5. CASE upSince # Down /\ ~(upSince + 1 < Stable)
    <3>1. bad' = 0 /\ rest' = rest
      BY <1>6, <2>5 DEF Lost
    <3>2. GateTypeOK'
      BY <1>1, <1>2, <2>1, <3>1 DEF GateTypeOK
    <3>3. BusyInv' /\ ReportInv' /\ IdleInv'
      BY <2>1, <2>2, <2>5, <3>1 DEF BusyInv, ReportInv, IdleInv, Down
    <3> QED
      BY <2>1, <3>2, <3>3 DEF GateInv
  <2> QED
    BY <2>1, <2>3, <2>4, <2>5
<1>7. CASE GateTick
  <2>1. /\ reports = {} /\ sock # "opening" /\ (sock = "none" => asked = Tickers)
        /\ wait' = IF wait = 0 THEN 0 ELSE wait - 1
        /\ upSince' = IF upSince = Down THEN Down ELSE LessOf(upSince + 1, Stable)
        /\ rest' = LessOf(rest + 1, Longest)
        /\ bad' = IF sock = "open" /\ upSince # Down /\ upSince + 1 >= Stable THEN 0 ELSE bad
        /\ asked' = {}
        /\ UNCHANGED <<failures, sock, joined, reports>>
    BY <1>7 DEF GateTick
  <2>2. /\ wait' \in 0..Longest /\ rest' \in 0..Longest /\ upSince' \in 0..Down /\ bad' \in 0..FailCap
        /\ (wait' = 0 \/ wait' = wait - 1) /\ (rest' = rest + 1 \/ rest' = Longest)
        /\ rest' >= rest
        /\ upSince' = Down <=> upSince = Down
    BY <1>2, <2>1 DEF LessOf
  <2>3. GateTypeOK'
    BY <1>1, <2>1, <2>2 DEF GateTypeOK
  <2>4. sock \in {"none", "open"}
    BY <1>1, <2>1 DEF GateTypeOK
  <2>5. bad > 0 => Least(bad) \in Nat /\ Least(bad) <= Longest
    BY <1>2, LeastGrows
  <2>6. CASE sock = "open"
    <3>1. wait = 0 /\ failures >= bad /\ (bad > 0 => rest >= Least(bad))
      BY <2>6 DEF GateInv, BusyInv
    <3>2. wait' = 0 /\ failures' >= bad' /\ bad' \in {0, bad}
      BY <1>2, <2>1, <3>1
    <3>3. bad' > 0 => rest' >= Least(bad')
      BY <1>2, <2>2, <2>5, <3>1, <3>2
    <3>4. upSince' = Stable => bad' = 0
      BY <1>2, <2>1, <2>6 DEF LessOf
    <3> QED
      BY <2>1, <2>3, <2>6, <3>2, <3>3, <3>4
      DEF GateInv, BusyInv, ReportInv, IdleInv, Least, Backoff, LessOf
  <2>7. CASE sock = "none" /\ upSince # Down
    <3>1. bad' = bad /\ asked = Tickers /\ asked' # Tickers
      BY <2>1, <2>7
    <3>2. bad > 0 => upSince + 1 < Stable /\ Counted(failures) >= bad
      BY <2>1, <2>7, <3>1 DEF GateInv, IdleInv
    <3>3. bad > 0 => upSince' < Stable
      BY <1>2, <2>1, <2>7, <3>2 DEF LessOf
    <3>4. upSince' # Down' /\ Down' = Down
      BY <2>2, <2>7 DEF Down
    <3> QED
      BY <2>1, <2>3, <2>7, <3>1, <3>2, <3>3, <3>4
      DEF GateInv, BusyInv, ReportInv, IdleInv, Counted, LessOf
  <2>8. CASE sock = "none" /\ upSince = Down
    <3>1. bad' = bad
      BY <2>1, <2>8
    <3>2. failures >= bad /\ (bad > 0 => wait + rest >= Least(bad))
      BY <2>1, <2>8 DEF GateInv, IdleInv
    <3>3. bad > 0 => wait' + rest' >= Least(bad)
      BY <1>2, <2>1, <2>2, <2>5, <3>2
    <3>4. upSince' = Down' /\ Down' = Down
      BY <2>2, <2>8 DEF Down
    <3> QED
      BY <2>1, <2>3, <2>8, <3>1, <3>2, <3>3, <3>4
      DEF GateInv, BusyInv, ReportInv, IdleInv, Least, Backoff, LessOf
  <2> QED
    BY <2>1, <2>4, <2>6, <2>7, <2>8
<1> QED
  BY <1>3, <1>4, <1>5, <1>6, <1>7 DEF Opens, Refused, Lost, GateTick

\* However many callers ask and report, and for any delays, a relay that refuses or
\* kicks is left alone for the backoff of its bad openings; the watchdog and the
\* subscriptions ask at every tick, so there is a ticker (relay_gate.ts).
THEOREM RelayIsLeftAlone ==
  ASSUME Tickers # {}
  PROVE  GateSpec => LeftAlone
<1> DEFINE Apart == sock = "none" /\ sock' = "opening" /\ bad > 0 => rest >= (4 * Backoff(bad) + 4) \div 5
<1>1. GateInit => GateInv
  <2> SUFFICES ASSUME GateInit PROVE GateInv
    OBVIOUS
  <2>1. Longest \in Nat /\ Stable \in Nat /\ FailCap \in Nat
    BY RelayGateAssumption DEF Longest
  <2> QED
    BY <2>1 DEF GateInit, GateInv, GateTypeOK, BusyInv, ReportInv, IdleInv, Down
<1>2. GateInv /\ [GateNext]_gvars => GateInv' /\ [Apart]_gvars
  <2> SUFFICES ASSUME GateInv, [GateNext]_gvars PROVE GateInv' /\ [Apart]_gvars
    OBVIOUS
  <2>1. CASE UNCHANGED gvars
    BY <2>1 DEF gvars, GateInv, GateTypeOK, BusyInv, ReportInv, IdleInv, Least, Backoff, Counted, LessOf,
                Down, Longest, Callers
  <2>2. CASE GateNext
    BY <2>2, AskKeeps, GateOthersKeep DEF GateNext, Least
  <2> QED
    BY <2>1, <2>2
<1> HIDE DEF Apart
<1>3. GateSpec => [][Apart]_gvars
  BY <1>1, <1>2, PTL DEF GateSpec
<1> QED
  BY <1>3 DEF LeftAlone, Apart
=============================================================================
