------------------------------ MODULE Notifier ------------------------------
(***************************************************************************)
(* The outbox watcher and the notifier that reads its DM relay list.  The  *)
(* watcher keeps the newest relay list of the operator and of the account  *)
(* key, whatever order the bootstrap relays serve them in; the notifier    *)
(* keeps a bounded queue of messages that one drain loop publishes, waits  *)
(* with, or drops.  A list is a set of relays: normalising, filtering and  *)
(* deduplicating urls happens before.                                      *)
(***************************************************************************)
EXTENDS Naturals, Sequences, FiniteSets

CONSTANTS
  Accounts,   \* account keys
  Operator,   \* OUTBOX_FALLBACK_PUBKEY
  Nobody,     \* no key yet
  Lists,      \* relay lists, among them the empty one
  Fallback,   \* the static list
  Stamps,     \* created_at values
  ListOf,     \* [Kinds \X Authors \X Stamps -> Lists]: what was published then
  MaxQueue,   \* MAX_QUEUE
  Grace,      \* GATE_GRACE_MS in rechecks
  MaxNotes    \* bound on notifications

Kinds == {"outbox", "dm"}
Authors == Accounts \cup {Operator}

ASSUME NotifierAssumption ==
  /\ {} \in Lists /\ Fallback \in Lists /\ Stamps \subseteq Nat \ {0}
  /\ ListOf \in [Kinds \X Authors \X Stamps -> Lists]
  /\ Operator \notin Accounts /\ Nobody \notin Authors
  /\ MaxQueue \in Nat \ {0} /\ Grace \in Nat /\ MaxNotes \in Nat

VARIABLES
  key,                  \* userPubkey
  user, operator, dm,   \* AuthorState: [list, at]
  effective,            \* the active relay set
  top,                  \* the newest stamp received of each list since the key was set
  queue,                \* items: [n, age]
  drain,                \* the drain loop
  stopped,
  notes,                \* notifications so far
  sent                  \* the last notification sent or dropped

lists == <<key, user, operator, dm, effective, top>>
nvars == <<lists, queue, drain, stopped, notes, sent>>

Blank == [list |-> {}, at |-> 0]
Events == {[kind |-> x[1], by |-> x[2], at |-> x[3], list |-> ListOf[x]] : x \in Kinds \X Authors \X Stamps}

NotifierTypeOK ==
  /\ key \in Accounts \cup {Nobody}
  /\ {user, operator, dm} \subseteq [list : Lists, at : Stamps \cup {0}]
  /\ effective \in Lists /\ top \in [Kinds \X Authors -> Stamps \cup {0}]
  /\ queue \in Seq([n : 1..MaxNotes, age : 0..Grace]) /\ Len(queue) <= MaxQueue
  /\ drain \in {"idle", "sleeping", "sending"} /\ stopped \in BOOLEAN
  /\ notes \in 0..MaxNotes /\ sent \in 0..MaxNotes

NotifierInit ==
  /\ key = Nobody /\ user = Blank /\ operator = Blank /\ dm = Blank
  /\ effective = Fallback /\ top = [x \in Kinds \X Authors |-> 0]
  /\ queue = <<>> /\ drain = "idle" /\ stopped = FALSE /\ notes = 0 /\ sent = 0

-----------------------------------------------------------------------------
\* The outbox watcher.

\* recompute: user before operator before the static list.
recompute(u, o) == IF u.list # {} THEN u.list ELSE IF o.list # {} THEN o.list ELSE Fallback

\* applyAuthor and its like for 10050: only newer events count, empty ones too.
apply(state, e) == IF e.at <= state.at THEN state ELSE [list |-> e.list, at |-> e.at]

\* handleEvent, handleDmEvent.
Receive(e) ==
  /\ operator' = IF e.kind = "outbox" /\ e.by = Operator THEN apply(operator, e) ELSE operator
  /\ user' = IF e.kind = "outbox" /\ e.by = key THEN apply(user, e) ELSE user
  /\ dm' = IF e.kind = "dm" /\ e.by = key THEN apply(dm, e) ELSE dm
  /\ effective' = recompute(user', operator')
  /\ top' = [top EXCEPT ![<<e.kind, e.by>>] = IF e.at > @ THEN e.at ELSE @]
  /\ UNCHANGED <<key, queue, drain, stopped, notes, sent>>

\* Mutant: the old key's lists are kept.
setPrimaryPubkeyOnly(k) ==
  /\ key # k /\ key' = k
  /\ top' = [x \in Kinds \X Authors |-> IF x[2] = Operator THEN top[x] ELSE 0]
  /\ UNCHANGED <<user, dm, operator, effective, queue, drain, stopped, notes, sent>>

\* setPrimaryPubkey: what was known of another key is forgotten.
setPrimaryPubkey(k) ==
  /\ key # k /\ key' = k
  /\ user' = Blank /\ dm' = Blank
  /\ effective' = recompute(user', operator)
  /\ top' = [x \in Kinds \X Authors |-> IF x[2] = Operator THEN top[x] ELSE 0]
  /\ UNCHANGED <<operator, queue, drain, stopped, notes, sent>>

-----------------------------------------------------------------------------
\* The notifier.

\* One turn of the loop up to its next await.  With a list the head is taken out
\* and published; without one it is dropped when its grace is over, else the loop
\* sleeps.
turn(q) ==
  IF ~stopped /\ q # <<>> /\ dm.list # {} THEN queue' = Tail(q) /\ drain' = "sending" /\ sent' = Head(q).n
  ELSE LET young == {i \in 1..Len(q) : q[i].age < Grace}
           first == IF young = {} THEN Len(q) + 1 ELSE CHOOSE i \in young : \A j \in young : i <= j
           rest == SubSeq(q, first, Len(q))
       IN /\ queue' = rest
          /\ drain' = IF rest = <<>> \/ stopped THEN "idle" ELSE "sleeping"
          /\ sent' = IF first > 1 THEN q[first - 1].n ELSE sent

\* Mutant: a full queue is left alone.
enqueuedFull(q, item) == IF Len(q) >= MaxQueue THEN q ELSE Append(q, item)

\* notify makes room by dropping the oldest.
enqueued(q, item) == Append(IF Len(q) >= MaxQueue THEN Tail(q) ELSE q, item)

notify ==
  /\ ~stopped /\ notes < MaxNotes /\ notes' = notes + 1
  /\ LET q == enqueued(queue, [n |-> notes + 1, age |-> 0])
     IN IF drain = "idle" THEN turn(q) ELSE queue' = q /\ UNCHANGED <<drain, sent>>
  /\ UNCHANGED <<lists, stopped>>

\* The sleep or the publish (best effort) is over.
Woken ==
  /\ drain = "sleeping"
  /\ turn([i \in 1..Len(queue) |-> [queue[i] EXCEPT !.age = IF queue[i].age < Grace THEN queue[i].age + 1 ELSE Grace]])
  /\ UNCHANGED <<lists, stopped, notes>>

Published ==
  /\ drain = "sending" /\ turn(queue)
  /\ UNCHANGED <<lists, stopped, notes>>

stop ==
  /\ ~stopped /\ stopped' = TRUE /\ queue' = <<>>
  /\ UNCHANGED <<lists, drain, notes, sent>>

NotifierNext ==
  \/ \E e \in Events : Receive(e)
  \/ \E k \in Accounts : setPrimaryPubkey(k)
  \/ notify \/ Woken \/ Published \/ stop

NotifierSpec == NotifierInit /\ [][NotifierNext]_nvars

-----------------------------------------------------------------------------
\* Properties.

Current(kind, author, state) ==
  LET at == IF author = Nobody THEN 0 ELSE top[<<kind, author>>]
  IN state = IF at = 0 THEN Blank ELSE [list |-> ListOf[<<kind, author, at>>], at |-> at]

\* The relay lists are the newest that their author has published, in whatever
\* order they came, and never another key's (outbox.ts:246); the active set
\* follows them.
ListsAreCurrent ==
  /\ Current("outbox", Operator, operator)
  /\ Current("outbox", key, user) /\ Current("dm", key, dm)
  /\ effective = recompute(user, operator)

\* The queue (notifier.ts:148) is bounded, holds the newest notifications in order,
\* and while it holds one the loop is under way; nothing comes out twice or out
\* of order.
QueueMoves ==
  /\ Len(queue) <= MaxQueue
  /\ \A i \in 1..Len(queue) : queue[i].n = notes - (Len(queue) - i) /\ queue[i].n > sent
  /\ queue # <<>> => drain # "idle" /\ ~stopped
=============================================================================
