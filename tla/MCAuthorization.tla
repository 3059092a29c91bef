-------------------------- MODULE MCAuthorization --------------------------
(* Instances of Authorization for TLC.                                     *)
EXTENDS Authorization, TLC

CONSTANTS auth1, auth2, ensure1, refresh1, sync1, acc1, acc2, adv1, adv2

CommandsOfRuns ==
    [r \in Runs |-> CASE r \in {auth1, auth2} -> "authorize"
                      [] r = ensure1 -> "ensure"
                      [] r = refresh1 -> "refresh"
                      [] r = sync1 -> "sync"]

(* both accounts reach one advertiser, the first all of them               *)
Reach == [y \in Accounts |-> IF y = acc1 THEN Advertisers ELSE {adv1}]
=============================================================================
