----------------------------- MODULE WalletMath ------------------------------
(***************************************************************************)
(* The amounts the wallet computes before it signs: which vtxos a send     *)
(* spends (coin_select.ts, wallet_spend.ts), what a Lightning payment is   *)
(* funded with (ln_send.ts, send.ts), what an on-chain send leaves behind  *)
(* (send.ts), how a sub-dust claim is split (atomic/split.ts) and how many *)
(* hot pockets are carved off a fresh vtxo. Each is an operator on small   *)
(* numbers, with the facts the callers rely on stated over its result.     *)
(***************************************************************************)
EXTENDS Integers, FiniteSets

CONSTANTS
    Dust,           \* the server's dust limit
    Slack,          \* DRAIN_SLACK_SATS
    MaxOpReturns,   \* MAX_OP_RETURN_OUTPUTS: how many sub-dust outputs arkd takes
    Pocket,         \* HOT_POCKET_SATS
    PocketCount     \* HOT_POCKET_COUNT

ASSUME MathAssumption ==
    /\ Dust \in Nat \ {0} /\ Pocket \in Nat \ {0}
    /\ Slack \in Nat /\ PocketCount \in Nat
    /\ MaxOpReturns \in Nat /\ MaxOpReturns >= 2

VARIABLE
    input           \* what one of the computations is asked

\* An amount that no caller takes: the code throws, or answers null.
Throws == -1

\* A pool is a function from coin names (numbers, in the order of the outpoints) to records.
\* A sum counts the sats of its coins, each a pair of the coin and a number.
Part(pool, some) == Cardinality(UNION {{c} \X (1..pool[c].value) : c \in some})
Total(pool) == Part(pool, DOMAIN pool)

-----------------------------------------------------------------------------
(* coin_select.ts *)

\* A total that leaves change below dust does not cover the target.
coversLoosely(sum, target, dust) == sum >= target
covers(sum, target, dust) == sum = target \/ sum >= target + dust

\* What is left of a coin after paying for its exit.
net(k) == IF k.value > k.cost THEN k.value - k.cost ELSE 0

\* a before b, compared by three keys.
Before(a, b) ==
    \/ a[1] < b[1]
    \/ a[1] = b[1] /\ a[2] < b[2]
    \/ a[1] = b[1] /\ a[2] = b[2] /\ a[3] < b[3]

bestSingle(pool, singles) ==
    CHOOSE c \in singles : \A d \in singles \ {c} :
        Before(<<net(pool[c]), pool[c].value, c>>, <<net(pool[d]), pool[d].value, d>>)

byChainThenSize(pool, c, d) ==
    Before(<<pool[c].cost, -pool[c].value, c>>, <<pool[d].cost, -pool[d].value, d>>)

\* What has been taken of some coins when it is c's turn, with c.
upTo(pool, some, c) == {d \in some : d = c \/ byChainThenSize(pool, d, c)}

\* The first prefix that covers the target; the empty set if none does.
accumulate(pool, some, target, dust) ==
    LET enough == {c \in some : covers(Part(pool, upTo(pool, some, c)), target, dust)}
        first  == CHOOSE c \in enough : \A d \in enough : upTo(pool, some, c) \subseteq upTo(pool, some, d)
    IN  IF enough = {} THEN {} ELSE upTo(pool, some, first)

selectSpendInputs(pool, target, dust) ==
    LET singles == {c \in DOMAIN pool : covers(pool[c].value, target, dust)}
        worth   == {c \in DOMAIN pool : net(pool[c]) > 0}
        merged  == accumulate(pool, worth, target, dust)
    IN  IF singles # {} THEN {bestSingle(pool, singles)}
        ELSE IF merged # {} THEN merged
        ELSE accumulate(pool, DOMAIN pool, target, dust)

\* A send never leaves change below dust; it is refused only if the whole pool does not
\* cover it; a coin that covers it alone is taken alone, at the least loss of exit value;
\* and a written-off coin is merged only if the others do not suffice.
SelectionIsRight(pool, target, dust) ==
    LET picked == selectSpendInputs(pool, target, dust)
        change == Part(pool, picked) - target
        singles == {c \in DOMAIN pool : pool[c].value = target \/ pool[c].value >= target + dust}
        worth  == {c \in DOMAIN pool : pool[c].value > pool[c].cost}
    IN  /\ picked # {} => change = 0 \/ change >= dust
        /\ picked = {} => Total(pool) < target + dust /\ Total(pool) # target
        /\ \A c \in singles : Cardinality(picked) = 1 /\ \A d \in picked : net(pool[d]) <= net(pool[c])
        /\ Cardinality(picked) > 1 /\ ~(picked \subseteq worth) =>
              Part(pool, worth) < target + dust /\ Part(pool, worth) # target

-----------------------------------------------------------------------------
(* ln_send.ts and send.ts: funding a Lightning payment. *)

\* The whole balance when it is within the slack of what is required.
fundingAmount(required, spendable, slack) ==
    IF required > spendable THEN Throws
    ELSE IF spendable - required \in 1..slack THEN spendable ELSE required

\* A payment that takes all but a few sats takes all of them: it is never refused over its
\* change, and what leaves the wallet is at most the slack above what is required.
FundingIsRight(pool, required, dust, slack) ==
    LET amount == fundingAmount(required, Total(pool), slack)
    IN  amount # Throws =>
          /\ amount - required \in 0..slack
          /\ Total(pool) - required <= slack => selectSpendInputs(pool, amount, dust) = DOMAIN pool

\* Rounding up, pct in percent.
ceilPct(pct, x) == (pct * x + 99) \div 100
submarineTotal(fees, x) == x + ceilPct(fees.pct, x) + fees.base

\* The walk from an estimate that rounding may have put one off.
lnDrainInvoiceSat(fees, target, off) ==
    LET start == (100 * (target - fees.base)) \div (100 + fees.pct) + off
        up    == CHOOSE x \in start..(target + 1) :
                    submarineTotal(fees, x + 1) > target /\ \A y \in (start + 1)..x : submarineTotal(fees, y) <= target
        down  == {x \in 1..up : submarineTotal(fees, x) <= target}
    IN  IF target < fees.base \/ start <= 0 \/ down = {} THEN 0
        ELSE CHOOSE x \in down : \A y \in down : y <= x

\* The invoice the page offers for emptying the wallet is the largest that fits.
DrainIsRight(fees, target, off) ==
    LET x == lnDrainInvoiceSat(fees, target, off)
    IN  x # 0 => /\ submarineTotal(fees, x) <= target
                 /\ submarineTotal(fees, x + 1) > target

-----------------------------------------------------------------------------
(* send.ts: an on-chain send spends everything and gets the rest back as one vtxo. *)

\* Sub-dust before swept or expired, and only what is unspent.
bucketOf(v, dust) ==
    IF v.spent THEN "none"
    ELSE IF v.value < dust THEN "subdust"
    ELSE IF v.swept \/ v.expired THEN "recoverable"
    ELSE "spendable"

roundTotalSat(pool, dust) == Part(pool, {c \in DOMAIN pool : bucketOf(pool[c], dust) # "none"})

offboardFeeSat(fees, amount) == fees.base + (fees.pct * amount) \div 100

offboardMaxSat(fees, total, dust) ==
    LET out == total - offboardFeeSat(fees, total) IN IF out < dust THEN Throws ELSE out

\* The guard, and at most four steps towards the largest amount it lets through.
offboardDustChange(fees, total, dust, recipient) ==
    LET change == total - recipient - offboardFeeSat(fees, recipient)
        after(c) == total - dust - offboardFeeSat(fees, c)
        step(c) == IF c > 0 THEN after(c) ELSE c
    IN  IF change <= 0 \/ change >= dust THEN [hit |-> FALSE, advice |-> 0]
        ELSE [hit |-> TRUE, advice |-> step(step(step(step(after(recipient)))))]

\* What the review page shows. The recipient gets the amount asked for, the fee is on top;
\* a drain takes the total.
review(fees, total, dust, isMax, asked) ==
    IF isMax
    THEN [to |-> offboardMaxSat(fees, total, dust), fee |-> offboardFeeSat(fees, total), out |-> total]
    ELSE [to |-> IF offboardDustChange(fees, total, dust, asked).hit THEN Throws ELSE asked,
          fee |-> offboardFeeSat(fees, asked), out |-> asked + offboardFeeSat(fees, asked)]

\* What the confirm post submits: it classifies and computes again. The round deducts the
\* fee from the gross amount, and from everything where none is given (0).
submit(fees, total, dust, isMax, asked) ==
    LET to == IF isMax THEN offboardMaxSat(fees, total, dust)
              ELSE IF offboardDustChange(fees, total, dust, asked).hit THEN Throws
              ELSE asked
    IN  [to |-> to, gross |-> IF isMax THEN 0 ELSE to + offboardFeeSat(fees, to)]

\* A drain leaves nothing but its fee; a fixed amount that is let through leaves no change
\* the server would refuse; the amount the page advises instead is let through; and what is
\* submitted takes from the wallet what the review showed.
OffboardIsRight(fees, pool, dust, asked) ==
    LET total == roundTotalSat(pool, dust)
        max   == offboardMaxSat(fees, total, dust)
        dusty == offboardDustChange(fees, total, dust, asked)
        rest(r) == total - r - offboardFeeSat(fees, r)
    IN  /\ max # Throws => max >= dust /\ max + offboardFeeSat(fees, total) = total
        /\ ~dusty.hit => rest(asked) \notin 1..(dust - 1)
        /\ dusty.hit /\ dusty.advice > 0 => rest(dusty.advice) >= dust
        /\ \A isMax \in BOOLEAN :
              LET seen_ == review(fees, total, dust, isMax, asked)
                  sent  == submit(fees, total, dust, isMax, asked)
              IN  /\ seen_.to = sent.to
                  /\ sent.to # Throws =>
                        /\ seen_.to + seen_.fee = seen_.out
                        /\ (IF sent.gross = 0 THEN total ELSE sent.gross) = seen_.out

-----------------------------------------------------------------------------
(* atomic/split.ts *)

\* No split: the code throws.
NoSplit == [claimer |-> 0, fee |-> 0, change |-> 0]

\* An output of 0 is omitted; one below dust is an OP_RETURN.
opReturns(split, dust) == Cardinality({o \in DOMAIN split : split[o] \in 1..(dust - 1)})

computeClaimSplit(value, amount, fee, dust, thirdParty, maxOpReturns) ==
    LET change == value - amount - fee
        split  == [claimer |-> IF thirdParty THEN amount ELSE amount + fee,
                   fee     |-> IF thirdParty THEN fee ELSE 0,
                   change  |-> change]
    IN  IF amount <= 0 \/ amount >= dust \/ fee < 0 \/ change < 0 THEN NoSplit
        ELSE IF opReturns(split, dust) > maxOpReturns THEN NoSplit
        ELSE split

\* A claim pays out exactly what was funded, with no more sub-dust outputs than arkd takes;
\* and a split with the fee folded in, as both callers ask for, is never refused over them.
SplitIsRight(value, amount, fee, dust, thirdParty, maxOpReturns) ==
    LET split == computeClaimSplit(value, amount, fee, dust, thirdParty, maxOpReturns)
    IN  /\ split # NoSplit =>
              /\ split.claimer + split.fee + split.change = value
              /\ split.claimer >= amount /\ split.fee >= 0 /\ split.change >= 0
              /\ opReturns(split, dust) <= maxOpReturns
        /\ split = NoSplit /\ ~thirdParty => amount \notin 1..(dust - 1) \/ amount + fee > value

-----------------------------------------------------------------------------
(* wallet_spend.ts: how many pockets to carve off the largest vtxo. *)

hotPocketsNeeded(pool, dust, pocket, count) ==
    LET missing == count - Cardinality({c \in DOMAIN pool : pool[c].value <= pocket})
        biggest == CHOOSE m \in {0} \cup {pool[c].value : c \in DOMAIN pool} :
                      \A c \in DOMAIN pool : pool[c].value <= m
        spare   == IF biggest < dust THEN 0 ELSE (biggest - dust) \div pocket
    IN  IF missing <= 0 THEN 0 ELSE IF missing < spare THEN missing ELSE spare

\* A split leaves a cold vtxo of at least dust, never makes more pockets than wanted, and
\* makes fewer only when another one would not fit.
PocketsAreRight(pool, dust, pocket, count) ==
    LET n == hotPocketsNeeded(pool, dust, pocket, count)
        have == Cardinality({c \in DOMAIN pool : pool[c].value <= pocket})
    IN  n > 0 => /\ have + n <= count
                 /\ \E c \in DOMAIN pool : /\ pool[c].value - n * pocket >= dust
                                           /\ have + n < count => pool[c].value - (n + 1) * pocket < dust

-----------------------------------------------------------------------------
(* What the callers may ask. *)

\* Finitely many coins, each of at least a sat.
IsPool(pool) ==
    /\ IsFiniteSet(DOMAIN pool) /\ DOMAIN pool \subseteq Nat
    /\ \A c \in DOMAIN pool : pool[c].value \in Nat \ {0}

IsFees(fees) == fees.pct \in Nat /\ fees.base \in Nat

InputOK ==
    /\ input.kind \in {"send", "offboard", "pockets"} => IsPool(input.pool)
    /\ input.kind \in {"drain", "offboard"} => IsFees(input.fees)
    /\ input.kind = "send" => /\ input.target \in Nat \ {0}
                              /\ \A c \in DOMAIN input.pool : input.pool[c].cost \in Nat
    /\ input.kind = "drain" => input.target \in Nat /\ input.off \in -1..1
    /\ input.kind = "offboard" => input.asked \in Nat \ {0}
    /\ input.kind = "split" => /\ input.value \in Nat /\ input.amount \in Nat
                               /\ input.fee \in Nat /\ input.third \in BOOLEAN

\* The sums the wallet signs for: no send leaves change below dust, a payment that drains the
\* wallet takes all of it, an on-chain send leaves what the server accepts, a claim pays out
\* what was funded, and a split keeps a cold vtxo (coin_select.ts, ln_send.ts, send.ts,
\* atomic/split.ts, wallet_spend.ts).
AmountsAddUp ==
    /\ input.kind = "send" => /\ SelectionIsRight(input.pool, input.target, Dust)
                              /\ FundingIsRight(input.pool, input.target, Dust, Slack)
    /\ input.kind = "drain" => DrainIsRight(input.fees, input.target, input.off)
    /\ input.kind = "offboard" => OffboardIsRight(input.fees, input.pool, Dust, input.asked)
    /\ input.kind = "split" => SplitIsRight(input.value, input.amount, input.fee, Dust, input.third, MaxOpReturns)
    /\ input.kind = "pockets" => PocketsAreRight(input.pool, Dust, Pocket, PocketCount)
=============================================================================
