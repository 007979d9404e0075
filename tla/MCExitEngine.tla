---------------------------- MODULE MCExitEngine ----------------------------
EXTENDS ExitEngine, TLC

CONSTANTS v1, v2, r, s, a, b

\* v1 joins two branches; v2 shares the second of them.  The list of v2 lacks an
\* ancestor, so its exit gets through only behind that of v1.
MCChainOf == v1 :> <<r, s, a>> @@ v2 :> <<s, b>>
MCAncestorsOf == r :> {} @@ s :> {} @@ a :> {r, s} @@ b :> {r, s}
=============================================================================
