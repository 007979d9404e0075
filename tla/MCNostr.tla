------------------------------- MODULE MCNostr -------------------------------
(***************************************************************************)
(* The three nostr parts share no state that their properties look at, so  *)
(* each behaviour runs one of them.                                        *)
(***************************************************************************)
EXTENDS NostrFeed, RelayGate, Notifier

CONSTANTS k1, k2, r1, r2

VARIABLE part

MCLists == SUBSET {r1, r2}
MCFallback == {r2}

\* The operator publishes a list and withdraws it; a key moves its list.
MCListOf ==
  [x \in Kinds \X Authors \X Stamps |->
     IF x[2] = Operator THEN (IF x[3] = 1 THEN {r1} ELSE {})
     ELSE IF x[2] = k1 THEN (IF x[3] = 1 THEN {r1, r2} ELSE {r2})
     ELSE (IF x[3] = 1 THEN {} ELSE {r1})]

MCInit == part \in {"feed", "gate", "dm"} /\ FeedInit /\ GateInit /\ NotifierInit
MCNext ==
  /\ UNCHANGED part
  /\ \/ part = "feed" /\ FeedNext /\ UNCHANGED <<gvars, nvars>>
     \/ part = "gate" /\ GateNext /\ UNCHANGED <<fvars, nvars>>
     \/ part = "dm" /\ NotifierNext /\ UNCHANGED <<fvars, gvars>>
MCSpec == MCInit /\ [][MCNext]_<<part, fvars, gvars, nvars>>

TypeOK == FeedTypeOK /\ GateTypeOK /\ NotifierTypeOK
=============================================================================
