---------------------------- MODULE BrowserHistory ----------------------------
(* What Back and Forward promise, as in a browser: two stacks of places. A jump *)
(* leaves its place on top of the one behind and forgets the ones ahead; a step *)
(* moves to the top of one stack and leaves its place on the other.             *)
EXTENDS Integers, Sequences

CONSTANT Places

VARIABLES
    at,       \* where the reader is
    behind,   \* places a step back leads to, the nearest last
    ahead     \* places a step forward leads to, the nearest first

browserVars == <<at, behind, ahead>>

Front(s) == SubSeq(s, 1, Len(s) - 1)

Go(p) == at' = p /\ behind' = Append(behind, at) /\ ahead' = <<>>

Wander(p) == at' = p /\ UNCHANGED <<behind, ahead>>

GoBack ==
    /\ behind # <<>>
    /\ at' = behind[Len(behind)] /\ behind' = Front(behind) /\ ahead' = <<at>> \o ahead

GoForward ==
    /\ ahead # <<>>
    /\ at' = ahead[1] /\ behind' = Append(behind, at) /\ ahead' = Tail(ahead)

BrowserInit == at \in Places /\ behind = <<>> /\ ahead = <<>>
BrowserNext == (\E p \in Places : Go(p) \/ Wander(p)) \/ GoBack \/ GoForward
BrowserSpec == BrowserInit /\ [][BrowserNext]_browserVars
=============================================================================
