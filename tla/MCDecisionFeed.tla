----------------------------- MODULE MCDecisionFeed -----------------------------
(* Small instances of DecisionFeed: an oracle in the gateway and one in v2,   *)
(* a rater in v2, a syncer in the gateway and one in another process.         *)
EXTENDS DecisionFeed
================================================================================
