--------------------------- MODULE MCUploadBatch ---------------------------
(* Instances of UploadBatch for TLC.                                       *)
EXTENDS UploadBatch, TLC

CONSTANTS r1, r2, r3, a1, a2, v1, v2, v3, v4, c1, c2

Library == [a \in Accounts |-> IF a = a1 THEN {v1, v2, v3} ELSE {v4}]

UploadSymmetry == {p @@ q : p \in Permutations(Runs), q \in Permutations({v1, v2, v3})}
=============================================================================
