----------------------------- MODULE PlanLedger -----------------------------
(***************************************************************************)
(* What a batch promises about the platform: each project and promotion is *)
(* created at most once for its job, and a promotion only under a project  *)
(* that exists.  A key is excused once the batch has misjudged it.         *)
(***************************************************************************)
CONSTANT Objects   \* records with fields kind, job and parent

VARIABLES objects, excused

Key(o) == <<o.kind, o.job>>

Init == objects = {} /\ excused = {}

Create(o) ==
    /\ Key(o) \notin excused => \A p \in objects : Key(p) # Key(o)
    /\ o.kind = "promotion" => o.parent \in objects
    /\ objects' = objects \cup {o}
    /\ UNCHANGED excused

Excuse(key) ==
    /\ excused' = excused \cup {key}
    /\ UNCHANGED objects

Next ==
    \/ \E o \in Objects : Create(o)
    \/ \E key \in {Key(o) : o \in Objects} : Excuse(key)

Spec == Init /\ [][Next]_<<objects, excused>>
=============================================================================
