-------------------------- MODULE MCQianchuanBatch --------------------------
(* Instances of QianchuanBatch for TLC.                                    *)
EXTENDS QianchuanBatch, TLC

CONSTANTS prep, sub1, sub2, dir1, dir2, rem, bnd, person, c1, n1, n2, p1, p2

(* The commands a run of that name gives.                                  *)
CommandsOfRuns ==
    [r \in Runs |-> CASE r = prep -> "preflight"
                      [] r \in {sub1, sub2} -> "submit"
                      [] r \in {dir1, dir2} -> "direct"
                      [] r = rem -> "remove"
                      [] r = bnd -> "bind"]

OneGroup == [w \in Works |-> 1]
GroupEach == [w \in Works |-> IF w = 1 THEN 1 ELSE 2]
Creators == [y \in Sources |-> c1]
(* the second group has all products of the template, the first not        *)
Overlapping == [y \in Sources |-> IF y = 2 THEN {p1, p2} ELSE {p1}]
(* people name plans their own way; a template may give groups one name    *)
GroupName == [y \in Sources |-> IF y \in Foreign THEN n2 ELSE n1]

(* Which runs meet in one behaviour: a preflight, a submit of it, a second *)
(* submit or a direct one, and a removal; or two direct submits and a bind *)
(* command, while people change plans.                                     *)
Begun == {r \in Runs : run[r].pc # "idle"}
Scenarios ==
    \/ \E other \in {sub2, dir1} : Begun \subseteq {prep, sub1, other, rem} /\ outside = 0
    \/ Begun \subseteq {dir1, dir2, bnd}
SubmitsAlike == Permutations({sub1, sub2})
=============================================================================
