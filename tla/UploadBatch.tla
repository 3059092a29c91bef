---------------------------- MODULE UploadBatch ----------------------------
(***************************************************************************)
(* "plans batch-upload --submit": the uploaded videos of several accounts  *)
(* are found, checked, divided into units and created as plans.  The plan  *)
(* of an upload is frozen in its operation journal before the first unit   *)
(* is created; whoever starts the same upload again goes on with the       *)
(* frozen plan as long as a unit of it is missing, and plans anew          *)
(* otherwise.  All runs here start the same upload (one scope).            *)
(*                                                                         *)
(* How a single unit is created, with its checkpoints and late effects, is *)
(* the subject of MarketingBatch; here creating one is a step, and a unit  *)
(* that comes about twice is one element of "units".                       *)
(***************************************************************************)
EXTENDS Integers, FiniteSets, SequencesExt, Lists

CONSTANTS
    Runs,             \* processes that start the upload
    Accounts,
    VideosOf,         \* videos that may be in the library of an account
    Configs,          \* templates with their resolved assets, by fingerprint
    Incomplete,       \* those that leave a required field of a payload open
    VideosPerUnit, MaxVideos, SkipMissingCover, ValidateAdGet,
    MaxRows,          \* bound on the rows of a library listing
    MaxBatches,       \* bound on the journals of the scope
    None

ASSUME AccountAssumption == Incomplete \subseteq Configs /\ \A a \in Accounts : None \notin VideosOf[a]
ASSUME LimitAssumption ==
    /\ VideosPerUnit \in Nat \ {0} /\ MaxVideos \in Nat /\ MaxRows \in Nat /\ MaxBatches \in Nat
    /\ SkipMissingCover \in BOOLEAN /\ ValidateAdGet \in BOOLEAN
ASSUME NoneAssumption == None \notin Runs /\ None \notin Configs /\ None \notin {"success", "errors"}

VARIABLES
    catalog,  \* the scope's journals in the order of their creation
    scope,    \* holder of the scope lock
    run,      \* progress of each run
    units     \* promotions on the platform

vars == <<catalog, scope, run, units>>

-----------------------------------------------------------------------------
(* Planning an account                                                     *)

(* Mutant: a unit ends with the video the next one begins with.            *)
GroupsOverlapping(videos) ==
    [i \in 1..((Len(videos) + VideosPerUnit - 1) \div VideosPerUnit) |->
        SubSeq(videos, (i - 1) * VideosPerUnit + 1, IF i * VideosPerUnit < Len(videos) THEN i * VideosPerUnit + 1
                                                    ELSE Len(videos))]
(* buildUploadGroups                                                       *)
Groups(videos) ==
    [i \in 1..((Len(videos) + VideosPerUnit - 1) \div VideosPerUnit) |->
        SubSeq(videos, (i - 1) * VideosPerUnit + 1, IF i * VideosPerUnit < Len(videos) THEN i * VideosPerUnit
                                                    ELSE Len(videos))]

(* The pages of a library; they may show a row twice, or one without ID.   *)
Listings(a) == BoundedSeq(VideosOf[a] \cup {None}, MaxRows)
Repeats(rows) == \E i, j \in DOMAIN rows : i # j /\ rows[i] = rows[j] /\ rows[i] # None
Compact(rows) == Kept(rows, {i \in DOMAIN rows : rows[i] # None /\ \A j \in 1..(i - 1) : rows[j] # rows[i]})
Limited(videos) == IF MaxVideos > 0 /\ Len(videos) > MaxVideos THEN SubSeq(videos, 1, MaxVideos) ELSE videos

(* What ad-get and the cover suggestions leave of the videos.              *)
Validated(videos, promotable) ==
    IF ValidateAdGet THEN Kept(videos, {i \in DOMAIN videos : videos[i] \in promotable}) ELSE videos
Covered(videos, covers) == Kept(videos, {i \in DOMAIN videos : videos[i] \in covers})

NoPlan == [config |-> None, groups |-> <<>>, blocked |-> {}]

(* prepareNewUploadAccount after its reads, which it makes one after the   *)
(* other and of which any may fail (Failed).                               *)
NewPlan(config, rows, promotable, covers) ==
    LET validated == Validated(Limited(Compact(rows)), promotable)
        ready == Covered(validated, covers)
    IN  IF Repeats(rows) \/ ready = <<>> \/ (ready # validated /\ ~SkipMissingCover) THEN NoPlan
        ELSE [config |-> config, groups |-> Groups(ready),
              blocked |-> IF config \in Incomplete THEN DOMAIN Groups(ready) ELSE {}]

(* blockedFrozenUploadWork                                                 *)
Withheld(frozen) == [config |-> frozen.config, groups |-> frozen.groups, blocked |-> DOMAIN frozen.groups]

(* Mutant: a template changed since is used for the frozen units.          *)
FrozenPlanReapplied(frozen, config, promotable, covers) ==
    [config |-> config, groups |-> frozen.groups,
     blocked |-> {i \in DOMAIN frozen.groups : config \in Incomplete
                    \/ Covered(Validated(frozen.groups[i], promotable), covers) # frozen.groups[i]}]
(* prepareFrozenUploadAccount, once the plan has units: they are held back *)
(* if the template or its assets have changed, or one of their videos is   *)
(* not ready any more.                                                     *)
FrozenPlan(frozen, config, promotable, covers) ==
    IF config # frozen.config THEN Withheld(frozen)
    ELSE [config |-> config, groups |-> frozen.groups,
          blocked |-> {i \in DOMAIN frozen.groups : config \in Incomplete
                         \/ Covered(Validated(frozen.groups[i], promotable), covers) # frozen.groups[i]}]

-----------------------------------------------------------------------------
(* The journal                                                             *)

Statuses == {"pending", "dispatching", "completed", "ambiguous"}

Frozen(plan) == [config |-> plan.config, groups |-> plan.groups,
                 status |-> [i \in DOMAIN plan.groups |-> "pending"]]

(* An account without units is in the journal as pending.                  *)
Completed(batch) ==
    \A a \in Accounts : /\ batch[a].groups # <<>>
                        /\ \A i \in DOMAIN batch[a].groups : batch[a].status[i] = "completed"
(* Mutant: an account without units does not keep its batch open.          *)
OpenWithUnits == {b \in DOMAIN catalog : \E a \in Accounts : \E i \in DOMAIN catalog[b][a].groups :
                                            catalog[b][a].status[i] # "completed"}
(* What findUploadJournal finds for the scope: its unfinished batches.     *)
Open == {b \in DOMAIN catalog : ~Completed(catalog[b])}

(* saveUploadJournal: the units of an account are frozen once; what is     *)
(* known of their jobs stays.                                              *)
Written(batch, plans) ==
    [a \in Accounts |-> IF batch[a].groups # <<>> THEN batch[a] ELSE Frozen(plans[a])]
NewBatch == [a \in Accounts |-> Frozen(NoPlan)]

-----------------------------------------------------------------------------
(* A run                                                                   *)

Pcs == {"idle", "find", "prepare", "create", "done"}
Fresh == [pc |-> "idle", batch |-> 0, plans |-> [a \in Accounts |-> None],
          rows |-> [a \in Accounts |-> <<>>], report |-> None]

Leave(r, report) ==
    /\ run' = [run EXCEPT ![r] = [Fresh EXCEPT !.pc = "done", !.batch = run[r].batch, !.report = report]]
    /\ scope' = IF scope = r THEN None ELSE scope

(* The scope is locked for the whole run.                                  *)
Begin(r) ==
    /\ run[r].pc = "idle" /\ scope = None
    /\ scope' = r
    /\ run' = [run EXCEPT ![r].pc = "find"]
    /\ UNCHANGED <<catalog, units>>

(* The one unfinished batch is gone on with; with several the run ends.    *)
Find(r) ==
    /\ run[r].pc = "find"
    /\ IF Cardinality(Open) > 1
       THEN Leave(r, None)
       ELSE /\ Open = {} => Len(catalog) < MaxBatches
            /\ run' = [run EXCEPT ![r].pc = "prepare",
                                  ![r].batch = IF Open = {} THEN Len(catalog) + 1 ELSE CHOOSE b \in Open : TRUE]
            /\ UNCHANGED scope
    /\ UNCHANGED <<catalog, units>>

Batch(r) == IF run[r].batch \in DOMAIN catalog THEN catalog[run[r].batch] ELSE NewBatch

(* What may come of the preparation of an account.                         *)
Prepared(frozen, a) ==
    IF frozen.groups = <<>>
    THEN {NewPlan(c, rows, p, k) : c \in Configs, rows \in Listings(a),
                                   p \in SUBSET VideosOf[a], k \in SUBSET VideosOf[a]} \cup {NoPlan}
    ELSE {FrozenPlan(frozen, c, p, k) : c \in Configs, p \in SUBSET VideosOf[a], k \in SUBSET VideosOf[a]}
         \cup {Withheld(frozen)}

(* The accounts are prepared side by side.                                 *)
Prepare(r, a) ==
    /\ run[r].pc = "prepare" /\ run[r].plans[a] = None
    /\ \E plan \in Prepared(Batch(r)[a], a) : run' = [run EXCEPT ![r].plans[a] = plan]
    /\ UNCHANGED <<catalog, scope, units>>

(* The plan is saved before the first unit.  A save that fails may have    *)
(* replaced the journal all the same.                                      *)
Save(r) ==
    LET saved == IF run[r].batch \in DOMAIN catalog
                 THEN [catalog EXCEPT ![run[r].batch] = Written(@, run[r].plans)]
                 ELSE Append(catalog, Written(NewBatch, run[r].plans)) IN
    /\ run[r].pc = "prepare" /\ \A a \in Accounts : run[r].plans[a] # None
    /\ \/ catalog' = saved /\ run' = [run EXCEPT ![r].pc = "create"] /\ UNCHANGED scope
       \/ catalog' \in {catalog, saved} /\ Leave(r, None)
    /\ UNCHANGED units

(* The next unit of an account, which come one after the other.            *)
Unit(r, a, i) == [batch |-> run[r].batch, account |-> a, group |-> i,
                  videos |-> run[r].plans[a].groups[i], config |-> run[r].plans[a].config]
Job(r, a) == Len(run[r].rows[a]) + 1
Pending(r, a) == run[r].pc = "create" /\ Job(r, a) \in DOMAIN run[r].plans[a].groups
Status(r, a) == catalog[run[r].batch][a].status[Job(r, a)]
Exists(r, a) == \E u \in units : u.batch = run[r].batch /\ u.account = a /\ u.group = Job(r, a)

Row(r, a, row) == run' = [run EXCEPT ![r].rows[a] = Append(@, row)]
Recorded(r, a, status) == catalog' = [catalog EXCEPT ![run[r].batch][a].status[Job(r, a)] = status]

Settled(r, a) ==
    /\ Pending(r, a)
    /\ \/ Status(r, a) = "completed" /\ Row(r, a, "skipped_completed")
       \/ Status(r, a) = "ambiguous" /\ Row(r, a, "ambiguous")
    /\ UNCHANGED <<catalog, scope, units>>

Blocked(r, a) ==
    /\ Pending(r, a)
    /\ Status(r, a) \in {"pending", "dispatching"} /\ Job(r, a) \in run[r].plans[a].blocked
    /\ Row(r, a, "blocked")
    /\ UNCHANGED <<catalog, scope, units>>

(* A unit that was under way is looked for first.  If it is not found, or  *)
(* the platform cannot be read, that it was under way is forgotten.        *)
Recover(r, a) ==
    /\ Pending(r, a)
    /\ Status(r, a) = "dispatching" /\ Job(r, a) \notin run[r].plans[a].blocked
    /\ \/ Exists(r, a) /\ Recorded(r, a, "completed") /\ Row(r, a, "completed")
       \/ Recorded(r, a, "pending") /\ Row(r, a, "failed")
       \/ Recorded(r, a, "ambiguous") /\ Row(r, a, "ambiguous")
    /\ UNCHANGED <<scope, units>>

(* Of a unit under way the project may have been read back: the promotion  *)
(* is then created by the same run.                                        *)
Create(r, a) ==
    /\ Pending(r, a) /\ Job(r, a) \notin run[r].plans[a].blocked
    /\ Status(r, a) = "pending" \/ (Status(r, a) = "dispatching" /\ ~Exists(r, a))
    /\ \/ /\ units' = units \cup {Unit(r, a, Job(r, a))}
          /\ \/ Recorded(r, a, "completed") /\ Row(r, a, "completed")
             \/ Recorded(r, a, "dispatching") /\ Row(r, a, "failed")
             \/ Recorded(r, a, "ambiguous") /\ Row(r, a, "ambiguous")
       \/ /\ UNCHANGED units
          /\ \E status \in {"pending", "dispatching"} : Recorded(r, a, status)
          /\ Row(r, a, "failed")
    /\ UNCHANGED scope

(* Mutant: units that were held back do not count as errors.               *)
SucceededIfNoneFailed(r) ==
    \A a \in Accounts : /\ run[r].plans[a].groups # <<>>
                        /\ \A i \in DOMAIN run[r].rows[a] :
                              run[r].rows[a][i] \in {"completed", "skipped_completed", "blocked"}
(* finalizeUploadAccount, uploadExitCode: every account has units, and     *)
(* none of them was held back or failed.                                   *)
Succeeded(r) ==
    \A a \in Accounts : /\ run[r].plans[a].groups # <<>>
                        /\ \A i \in DOMAIN run[r].rows[a] :
                              run[r].rows[a][i] \in {"completed", "skipped_completed"}

End(r) ==
    /\ run[r].pc = "create"
    /\ \A a \in Accounts : Len(run[r].rows[a]) = Len(run[r].plans[a].groups)
    /\ Leave(r, IF Succeeded(r) THEN "success" ELSE "errors")
    /\ UNCHANGED <<catalog, units>>

(* The process dies, or a lock, a read or the run fails as a whole.        *)
Crash(r) ==
    /\ run[r].pc \notin {"idle", "done"}
    /\ Leave(r, None)
    /\ UNCHANGED <<catalog, units>>

-----------------------------------------------------------------------------
Init ==
    /\ catalog = <<>> /\ scope = None
    /\ run = [r \in Runs |-> Fresh]
    /\ units = {}

Next == \E r \in Runs :
    \/ Begin(r) \/ Find(r) \/ Save(r) \/ End(r) \/ Crash(r)
    \/ \E a \in Accounts : Prepare(r, a) \/ Settled(r, a) \/ Blocked(r, a) \/ Recover(r, a) \/ Create(r, a)

Spec == Init /\ [][Next]_vars

-----------------------------------------------------------------------------
(* Properties                                                              *)

Plans(a) == {p \in [config : Configs \cup {None}, groups : Seq(Seq(VideosOf[a])), blocked : SUBSET Nat] :
                p.blocked \subseteq DOMAIN p.groups}

(* Every variable keeps its type; each unit in a journal has a status.     *)
TypeOK ==
    /\ scope \in Runs \cup {None}
    /\ \A b \in DOMAIN catalog, a \in Accounts :
          /\ catalog[b][a].groups \in Seq(Seq(VideosOf[a]))
          /\ catalog[b][a].status \in [DOMAIN catalog[b][a].groups -> Statuses]
          /\ catalog[b][a].config \in Configs \/ catalog[b][a].groups = <<>>
    /\ \A r \in Runs : /\ run[r].pc \in Pcs /\ run[r].report \in {None, "success", "errors"}
                       /\ \A a \in Accounts : run[r].plans[a] \in Plans(a) \cup {None}
                       /\ \A a \in Accounts : Len(run[r].rows[a]) > 0 =>
                             Len(run[r].rows[a]) <= Len(run[r].plans[a].groups)
    /\ \A u \in units : u.batch \in DOMAIN catalog /\ u.account \in Accounts

(* Overlapping starts of one upload never leave two unfinished batches     *)
(* behind, which nobody could go on with (ambiguous_batch_resume).         *)
OneOpenBatch ==
    \A b, d \in DOMAIN catalog : b # d => Completed(catalog[b]) \/ Completed(catalog[d])

(* A unit on the platform is the one its journal froze, with those videos  *)
(* and under that template, however many runs it took to create it.        *)
UnitsAsFrozen ==
    \A u \in units : LET frozen == catalog[u.batch][u.account] IN
        /\ u.group \in DOMAIN frozen.groups /\ frozen.groups[u.group] = u.videos
        /\ frozen.config = u.config

(* A video is used again only when the upload is started once more after a *)
(* batch of it has been completed.                                         *)
VideosUsedOnce ==
    \A u, w \in units :
        (u # w /\ u.account = w.account /\ \E v \in ToSet(u.videos) : v \in ToSet(w.videos)) =>
            \E b \in {u.batch, w.batch} : u.batch # w.batch /\ Completed(catalog[b])

(* A run that reports success has left no account without units and no     *)
(* unit uncreated.                                                         *)
SuccessIsComplete ==
    \A r \in Runs : run[r].report = "success" =>
        \A a \in Accounts :
            /\ catalog[run[r].batch][a].groups # <<>>
            /\ \A i \in DOMAIN catalog[run[r].batch][a].groups :
                  \E u \in units : u.batch = run[r].batch /\ u.account = a /\ u.group = i

(* Batches started, cut off and resumed in any order use no video twice    *)
(* and report success only when none is left.                              *)
NothingTwiceNorMissing == TypeOK /\ VideosUsedOnce /\ SuccessIsComplete
=============================================================================
