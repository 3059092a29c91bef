-------------------------- MODULE MCRequestControl --------------------------
(* Instances of RequestControl for TLC.                                    *)
EXTENDS RequestControl, TLC

CONSTANTS read1, read2, other1, plain1, cmd1, cmd2, scope1, scope2, scope3, fam1, fam2, fam3, adv1

(* two reads of one command, a call of another command, and one that is    *)
(* not paced (OAuth) beside the reads                                      *)
Commanded == [c \in Calls |-> IF c = other1 THEN cmd2 ELSE cmd1]
Scoped == [c \in Calls |-> CASE c = other1 -> scope2 [] c = plain1 -> scope3 [] OTHER -> scope1]
Grouped == [c \in Calls |-> CASE c = other1 -> fam2 [] c = plain1 -> fam3 [] OTHER -> fam1]
OneAdvertiser == [c \in Calls |-> adv1]

(* a read that is retried once; the others are writes                      *)
Sends == [c \in Calls |-> IF c = read1 THEN 2 ELSE 1]
Budgets == [p \in Commands |-> 2]
=============================================================================
