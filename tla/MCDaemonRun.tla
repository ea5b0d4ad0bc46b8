---------------------------- MODULE MCDaemonRun ----------------------------
(* Requests, posts and subscribers for the runs of DaemonRun. *)
EXTENDS DaemonRun, TLC

CONSTANTS a1, k1, p1, w1, w2

SameKey   == [a \in Asks |-> k1]
=============================================================================
