----------------------------- MODULE AtomicState -----------------------------
(***************************************************************************)
(* What a state file promises to its users: it has one value at a time,    *)
(* whoever loads it gets that value, and only one who has loaded a value   *)
(* that is still there replaces it.                                        *)
(***************************************************************************)
CONSTANTS Users, Values, Initial, Nothing

VARIABLES value, answer   \* the state; what each user has loaded, if anything

Init == value = Initial /\ answer = [u \in Users |-> Nothing]

Load(u) ==
    /\ answer' = [answer EXCEPT ![u] = value]
    /\ UNCHANGED value

Replace(u) ==
    /\ answer[u] = value
    /\ value' \in Values
    /\ UNCHANGED answer

Leave(u) ==
    /\ answer' = [answer EXCEPT ![u] = Nothing]
    /\ UNCHANGED value

Next == \E u \in Users : Load(u) \/ Replace(u) \/ Leave(u)

Spec == Init /\ [][Next]_<<value, answer>>
=============================================================================
