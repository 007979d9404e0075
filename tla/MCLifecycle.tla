---------------------------- MODULE MCLifecycle ----------------------------
EXTENDS Lifecycle
CONSTANT k1

\* The keys are interchangeable: an account older than this version, and the
\* first form of a process without an account, have k1.
MCInit == Init /\ engine \in {None, k1}
MCNext == Steps \/ \E p \in Posts, s \in Servers : \E k \in (IF engine = None THEN {k1} ELSE Keys) : Setup(p, k, s)
MCSpec == MCInit /\ [][MCNext]_vars /\ Fairness
=============================================================================
