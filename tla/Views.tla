-------------------------------- MODULE Views --------------------------------
(***************************************************************************)
(* What two pages make of stored rows.                                     *)
(*                                                                         *)
(* The exit page lays the ancestry of a vtxo out as a layered graph        *)
(* (exit/chain_order.ts) and works out what its exit costs                 *)
(* (exit/estimate.ts). The indexer's chain is a sequence of entries        *)
(* [tx, spends]: it may name a transaction twice, name ancestors it does   *)
(* not list, and, damaged, go in circles. The three loops of the layout    *)
(* are steps of a state machine, one per node visited.                     *)
(*                                                                         *)
(* The history page is read page by page (history.ts) while payments are   *)
(* recorded and invoices paid again.                                       *)
(***************************************************************************)
EXTENDS Integers, FiniteSets, Sequences

CONSTANTS
    TxIds,       \* the transaction ids a chain may name
    MaxRows,     \* bound on the history rows
    MaxSecond,   \* bound on the clock
    PageSize     \* limit of listHistoryPage

ASSUME ViewsAssumption ==
    MaxRows \in Nat /\ MaxSecond \in Nat /\ PageSize \in Nat \ {0}

VARIABLES
    chain,       \* what the indexer sent
    stage,       \* the loop that runs: "topo", "depth", "lanes", or "done"
    unvisited,   \* the nodes it has not come to
    progressed,  \* this sweep of the first loop has emitted a node
    rank,        \* a node's place in topo, 0 before it is emitted
    depth,       \* the longest path from a root
    lane         \* a node's column

layoutVars == <<chain, stage, unvisited, progressed, rank, depth, lane>>

VARIABLES
    created,     \* created_at of a history row, 0 if there is none; rows are named by their id
    second,      \* the wall clock
    reading,     \* "off", "on" with another page to come, or "done"
    cursor,      \* the link to the next page: <<created_at, id>>
    times,       \* how often a row was shown since the first page
    there,       \* the rows there were then
    moved        \* the rows whose created_at has changed since

pageVars == <<created, second, reading, cursor, times, there, moved>>

-----------------------------------------------------------------------------
(* exit/chain_order.ts: nodes and edges. *)

Txs == {chain[i].tx : i \in DOMAIN chain}

\* The position of a transaction's first entry, which is the one that counts.
First(tx) == CHOOSE i \in DOMAIN chain : chain[i].tx = tx /\ \A j \in DOMAIN chain : chain[j].tx = tx => i <= j

\* A transaction naming itself is noise.
parentTxids(entry) == entry.spends \ {entry.tx}

\* Entries that name ancestors, none of which is listed.
danglingEntries ==
    {i \in DOMAIN chain : parentTxids(chain[i]) # {} /\ parentTxids(chain[i]) \cap Txs = {}}

Parents(tx) == parentTxids(chain[First(tx)]) \cap Txs

-----------------------------------------------------------------------------
(* exit/chain_order.ts: the layout. *)

Emitted == {tx \in Txs : rank[tx] > 0}

\* One node of a sweep, in the order of the chain: emitted once all its parents are.
Visit(tx) ==
    /\ stage = "topo" /\ tx \in unvisited /\ \A u \in unvisited : First(tx) <= First(u)
    /\ unvisited' = unvisited \ {tx}
    /\ IF rank[tx] = 0 /\ Parents(tx) \subseteq Emitted
       THEN rank' = [rank EXCEPT ![tx] = Cardinality(Emitted) + 1] /\ progressed' = TRUE
       ELSE UNCHANGED <<rank, progressed>>
    /\ UNCHANGED <<chain, stage, depth, lane>>

\* The nodes of a circle go out as they stand in the chain.
emitRest ==
    LET rest == Txs \ Emitted
    IN  [tx \in Txs |-> IF tx \in Emitted THEN rank[tx]
                        ELSE Cardinality(Emitted) + Cardinality({u \in rest : First(u) <= First(tx)})]

SweepOver ==
    /\ stage = "topo" /\ unvisited = {}
    /\ rank' = IF progressed THEN rank ELSE emitRest
    /\ stage' = IF \A tx \in Txs : rank'[tx] > 0 THEN "depth" ELSE "topo"
    /\ unvisited' = Txs /\ progressed' = FALSE
    /\ UNCHANGED <<chain, depth, lane>>

Largest(S) == CHOOSE m \in S : \A x \in S : x <= m

\* Mutant: one below a root, however long the path.
shallow(tx) == IF Parents(tx) = {} THEN 0 ELSE 1

\* A parent not yet reached counts as a root.
deeper(tx) == IF Parents(tx) = {} THEN 0 ELSE 1 + Largest({depth[p] : p \in Parents(tx)})

SetDepth(tx) ==
    /\ stage = "depth" /\ tx \in unvisited /\ \A u \in unvisited : rank[tx] <= rank[u]
    /\ depth' = [depth EXCEPT ![tx] = deeper(tx)]
    /\ unvisited' = unvisited \ {tx}
    /\ UNCHANGED <<chain, stage, progressed, rank, lane>>

Level(tx) == {u \in Txs : depth[u] = depth[tx]}

\* Depths that nobody has are no levels.
Row(tx) == Cardinality({depth[u] : u \in {v \in Txs : depth[v] <= depth[tx]}})

SumOfLanes(some) == Cardinality(UNION {{p} \X (1..lane[p]) : p \in some})

\* The slot a node asks for, as a fraction: the mean of its parents' lanes on the levels
\* above; on the first level, and without such parents, its place on the level.
wants(tx) ==
    LET above == {p \in Parents(tx) : depth[p] < depth[tx]}
    IN  IF above = {} \/ Row(tx) = 1
        THEN [sum |-> Cardinality({u \in Level(tx) : rank[u] < rank[tx]}), of |-> 1]
        ELSE [sum |-> SumOfLanes(above), of |-> Cardinality(above)]

\* Level by level, leftmost wish first.
LeftOf(tx, u) ==
    \/ depth[tx] < depth[u]
    \/ /\ depth[tx] = depth[u]
       /\ LET a == wants(tx).sum * wants(u).of
              b == wants(u).sum * wants(tx).of
          IN  a < b \/ (a = b /\ rank[tx] < rank[u])

\* The lanes of its level that are given away.
takenLanes(tx) == {lane[u] : u \in Level(tx) \ unvisited}

\* The first free lane at or right of the wish, rounded down.
freeLane(tx) ==
    LET col  == wants(tx).sum \div wants(tx).of
        free == (col..(col + Cardinality(Txs))) \ takenLanes(tx)
    IN  CHOOSE c \in free : \A d \in free : c <= d

assignLane(tx) ==
    /\ stage = "lanes" /\ tx \in unvisited /\ \A u \in unvisited \ {tx} : LeftOf(tx, u)
    /\ lane' = [lane EXCEPT ![tx] = freeLane(tx)]
    /\ unvisited' = unvisited \ {tx}
    /\ UNCHANGED <<chain, stage, progressed, rank, depth>>

LoopOver ==
    /\ unvisited = {}
    /\ \/ stage = "depth" /\ stage' = "lanes" /\ unvisited' = Txs
       \/ stage = "lanes" /\ stage' = "done" /\ UNCHANGED unvisited
    /\ UNCHANGED <<chain, progressed, rank, depth, lane>>

LayoutInit ==
    /\ chain \in Seq([tx : TxIds, spends : SUBSET TxIds])
    /\ stage = "topo" /\ unvisited = Txs /\ progressed = FALSE
    /\ rank = [tx \in Txs |-> 0] /\ depth = rank /\ lane = rank

LayoutNext ==
    \/ \E tx \in Txs : Visit(tx) \/ SetDepth(tx) \/ assignLane(tx)
    \/ SweepOver \/ LoopOver

LayoutSpec == LayoutInit /\ [][LayoutNext]_layoutVars

LayoutTypeOK ==
    /\ chain \in Seq([tx : TxIds, spends : SUBSET TxIds])
    /\ stage \in {"topo", "depth", "lanes", "done"}
    /\ unvisited \subseteq Txs /\ progressed \in BOOLEAN
    /\ rank \in [Txs -> Nat] /\ depth \in [Txs -> Nat] /\ lane \in [Txs -> Nat]

\* No circle: every set of transactions has one whose parents are elsewhere.
Acyclic == \A some \in (SUBSET Txs) \ {{}} : \E tx \in some : Parents(tx) \cap some = {}

\* The exit page shows every transaction of the chain once, no two in one place, whatever the
\* indexer sent; without circles each stands below all its parents and directly below the
\* deepest, and a branch that is alone on its levels runs straight down.
ChainIsLaidOut ==
    stage = "done" =>
      /\ \A a, b \in Txs : a # b => rank[a] # rank[b] /\ <<Row(a), lane[a]>> # <<Row(b), lane[b]>>
      /\ Acyclic => \A tx \in Txs :
            /\ \A p \in Parents(tx) : Row(p) < Row(tx)
            /\ Parents(tx) = {} => Row(tx) = 1
            /\ Parents(tx) # {} => \E p \in Parents(tx) : Row(p) = Row(tx) - 1
            /\ \A p \in Txs : Parents(tx) = {p} /\ Level(tx) = {tx} => lane[tx] = lane[p]

-----------------------------------------------------------------------------
(* exit/estimate.ts, exit/stepper.ts: may this chain be unrolled? *)

\* Half of what makes an exit startable; the other half, a stored proof for each listed
\* transaction, cannot see what is not listed.
ancestryComplete == danglingEntries = {}

\* What the comment of ancestryComplete speaks of: an ancestor is named and not listed.
Misses(entry) == ~ (parentTxids(entry) \subseteq Txs)

\* What the verdict on a stored chain is worth, whatever the indexer sent. A chain called
\* broken does miss an ancestor. A chain called complete misses none as long as no entry names
\* two; one that lacks one of two parents is called complete all the same. And in any chain
\* called complete, without circles, whoever follows the ancestors upwards, a listed one at
\* each step, comes to an entry that names none: no walk ends at a hole.
EstimateIsRight ==
    LET Named(i) == parentTxids(chain[i])
    IN  /\ ~ ancestryComplete => \E i \in DOMAIN chain : Misses(chain[i])
        /\ ancestryComplete => \A i \in DOMAIN chain :
              Misses(chain[i]) => \E p, q \in Named(i) : p # q
        /\ ancestryComplete /\ Acyclic =>
              \A some \in (SUBSET Txs) \ {{}} :
                 (\A tx \in some : Parents(tx) \subseteq some) =>
                    \E tx \in some : Named(First(tx)) = {}

-----------------------------------------------------------------------------
(* history.ts: a page is the rows older than the cursor, newest first. *)

Rows == {i \in 1..MaxRows : created[i] > 0}
Key(i) == <<created[i], i>>
Older(a, b) == a[1] < b[1] \/ (a[1] = b[1] /\ a[2] < b[2])

\* limit + 1 rows are read to learn whether there is another page.
listHistoryPage(older) ==
    LET newest == {i \in older : Cardinality({j \in older : Older(Key(i), Key(j))}) < PageSize}
        last == CHOOSE i \in newest : \A j \in newest \ {i} : Older(Key(i), Key(j))
        more == Cardinality(older) > PageSize
    IN  [rows |-> newest, next |-> IF more THEN Key(last) ELSE cursor, more |-> more]

shows(answer, before) ==
    /\ times' = [i \in 1..MaxRows |-> before[i] + (IF i \in answer.rows THEN 1 ELSE 0)]
    /\ cursor' = answer.next
    /\ reading' = IF answer.more THEN "on" ELSE "done"

\* GET /history
FirstPage ==
    /\ shows(listHistoryPage(Rows), [i \in 1..MaxRows |-> 0])
    /\ there' = Rows /\ moved' = {}
    /\ UNCHANGED <<created, second>>

\* GET /history?before=
NextPage ==
    /\ reading = "on"
    /\ shows(listHistoryPage({i \in Rows : Older(Key(i), cursor)}), times)
    /\ UNCHANGED <<created, second, there, moved>>

\* insert: the id is one above the largest; the time is now, or an earlier one the caller gives.
Record(i) ==
    /\ Rows = 1..(i - 1)
    /\ \E t \in 1..second : created' = [created EXCEPT ![i] = t]
    /\ UNCHANGED <<second, reading, cursor, times, there, moved>>

\* recordWebLnPending of an invoice that has a row: it becomes the newest.
Retry(i) ==
    /\ i \in Rows /\ created[i] # second
    /\ created' = [created EXCEPT ![i] = second]
    /\ moved' = moved \cup {i}
    /\ UNCHANGED <<second, reading, cursor, times, there>>

ClockTicks ==
    /\ second < MaxSecond /\ second' = second + 1
    /\ UNCHANGED <<created, reading, cursor, times, there, moved>>

PagesInit ==
    /\ created = [i \in 1..MaxRows |-> 0] /\ second = 1
    /\ reading = "off" /\ cursor = <<0, 0>>
    /\ times = [i \in 1..MaxRows |-> 0] /\ there = {} /\ moved = {}

PagesNext ==
    \/ FirstPage \/ NextPage \/ ClockTicks
    \/ \E i \in 1..MaxRows : Record(i) \/ Retry(i)

PagesSpec == PagesInit /\ [][PagesNext]_pageVars

PagesTypeOK ==
    /\ created \in [1..MaxRows -> Nat] /\ second \in Nat
    /\ reading \in {"off", "on", "done"} /\ cursor \in Nat \X Nat
    /\ times \in [1..MaxRows -> Nat] /\ there \subseteq 1..MaxRows /\ moved \subseteq 1..MaxRows

\* Following the links shows no row twice; what they have not shown yet is older than what
\* they have; and at the end every row there was at the start has been shown, unless a new
\* attempt made it the newest meanwhile. Whatever is recorded in between changes none of it.
PagesAreWhole ==
    /\ \A i \in 1..MaxRows : times[i] <= 1
    /\ reading = "on" => \A i, j \in there \ moved : times[i] = 1 /\ times[j] = 0 => Older(Key(j), Key(i))
    /\ reading = "done" => \A i \in there \ moved : times[i] = 1

-----------------------------------------------------------------------------
\* What the exit page and the history page make of their rows: every transaction and every
\* row once, in order, and no exit called broken or complete beyond what EstimateIsRight says
\* the word is worth (exit/chain_order.ts, exit/estimate.ts, history.ts).
PagesShowAll == ChainIsLaidOut /\ EstimateIsRight /\ PagesAreWhole
=============================================================================
