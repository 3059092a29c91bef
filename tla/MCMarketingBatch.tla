------------------------- MODULE MCMarketingBatch -------------------------
(* Instances of MarketingBatch for TLC.                                    *)
EXTENDS MarketingBatch, TLC

CONSTANTS r1, r2, r3, j1, j2, a1, a2, n1, n2

(* one advertiser for every job                                            *)
OneAdvertiser == [j \in Jobs |-> a1]
(* a job each                                                              *)
OwnAdvertiser == [j \in Jobs |-> IF j = j1 THEN a1 ELSE a2]
OwnName == [j \in Jobs |-> IF j = j1 THEN n1 ELSE n2]
InOrder == [j \in Jobs |-> IF j = j1 THEN 1 ELSE 2]

RunSymmetry == Permutations(Runs)
=============================================================================
