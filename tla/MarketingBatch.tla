--------------------------- MODULE MarketingBatch ---------------------------
(***************************************************************************)
(* A Marketing batch: several jobs, each of which creates one official     *)
(* project and then one promotion under it, driven by batch.go and         *)
(* executor.go over one durable operation journal.                         *)
(*                                                                         *)
(* A run is one invocation of the CLI on the batch.  It loads the journal, *)
(* works through the jobs (those of one advertiser in order, advertisers   *)
(* in parallel, each job under the advertiser's file lock) and checkpoints *)
(* the whole journal around every write.  A run may crash anywhere; the    *)
(* next run decides from the journal what to recover, resume or repeat.    *)
(* The official API is external: a request may be applied late, never, or  *)
(* applied and reported as an error.                                       *)
(***************************************************************************)
EXTENDS Integers, FiniteSets

CONSTANTS
    Runs,            \* invocations of the batch command
    Jobs,            \* job keys of the journal
    Advertisers,
    AdvertiserOf,    \* advertiser each job writes to
    Rank,            \* position of a job in the request
    Names,
    NameOf,          \* name written into the project and promotion payload
    MaxConcurrency,  \* advertiser groups worked on at once (1..10)
    ScopeLocked,     \* upload batches hold a run-wide scope lock, creator batches do not
    None             \* absent ID, free lock

ASSUME MappingAssumption ==
    /\ AdvertiserOf \in [Jobs -> Advertisers]
    /\ NameOf \in [Jobs -> Names]
    /\ Rank \in [Jobs -> Nat]
ASSUME ModeAssumption == ScopeLocked \in BOOLEAN /\ MaxConcurrency \in Nat \ {0}

Kinds == {"project", "promotion"}

(* An official object is identified by the dispatch that asked for it: a   *)
(* run dispatches one kind at most once per job (OnceDispatcher).          *)
Projects == [kind : {"project"}, job : Jobs, run : Runs, parent : {None}]
Promotions == [kind : {"promotion"}, job : Jobs, run : Runs, parent : Projects]
Objects == Projects \cup Promotions

ASSUME NoneAssumption == None \notin Objects /\ None \notin Runs /\ None \notin Runs \X Jobs

Requested(k, j, r, parent) == [kind |-> k, job |-> j, run |-> r, parent |-> parent]

VARIABLES
    saved,      \* the journal file exists
    journal,    \* its jobs
    scope,      \* holder of the upload scope lock
    lock,       \* holder of each advertiser's write lock
    runPc,      \* phase of each run
    memory,     \* each run's in-memory copy of the journal
    worker,     \* each run's progress on each job
    inflight,   \* requests the API has not yet decided
    official,   \* objects that exist on the platform
    forgotten   \* history: why a recovery verdict forgot an object of a key

vars == <<saved, journal, scope, lock, runPc, memory, worker, inflight, official, forgotten>>

-----------------------------------------------------------------------------
(* Journal records                                                         *)

Statuses == {"pending", "project_dispatching", "project_created", "project_failed",
             "promotion_dispatching", "promotion_failed", "completed", "ambiguous"}
DispatchStates == {"none", "acknowledged", "not_sent", "unknown"}
JournalJob == [status : Statuses, project : Projects \cup {None},
               promotion : Promotions \cup {None}, dispatch : DispatchStates]

Pending == [status |-> "pending", project |-> None, promotion |-> None, dispatch |-> "none"]
NewJournal == [j \in Jobs |-> Pending]

Dispatching == [k \in Kinds |-> IF k = "project" THEN "project_dispatching" ELSE "promotion_dispatching"]
FailedStatus == [k \in Kinds |-> IF k = "project" THEN "project_failed" ELSE "promotion_failed"]

(* Mutant: the two IDs of a checkpoint are mixed up.                       *)
AppliedSwapped(rec, status, project, promotion, dispatch) ==
    [status |-> status, project |-> promotion, promotion |-> project, dispatch |-> dispatch]

(* applyCheckpoint: IDs are only ever filled in, the rest is overwritten.  *)
Applied(rec, status, project, promotion, dispatch) ==
    [status |-> status,
     project |-> IF project = None THEN rec.project ELSE project,
     promotion |-> IF promotion = None THEN rec.promotion ELSE promotion,
     dispatch |-> dispatch]

(* batchAction: what a run does with a job, from its journal record.       *)
Skipped(rec) == rec.status = "completed" /\ rec.promotion # None
BlockedAmbiguous(rec) == rec.status = "ambiguous"
(* Mutant: a failed promotion starts the job over.                         *)
ResumesUnlessFailed(rec) ==
    rec.project # None /\ rec.status \in {"project_created", "promotion_dispatching"}
Resumes(rec) ==
    rec.project # None /\ rec.status \in {"project_created", "promotion_dispatching", "promotion_failed"}
(* Mutants: only interrupted, only failed dispatches are recovered.        *)
RecoversInterrupted(rec) == {k \in Kinds : rec.status = Dispatching[k] /\ (k = "promotion" => Resumes(rec))}
RecoversFailed(rec) == {k \in Kinds : rec.status = FailedStatus[k] /\ rec.dispatch = "unknown"}
Recovers(rec) ==
    {k \in Kinds :
        /\ \/ rec.status = Dispatching[k]
           \/ rec.status = FailedStatus[k] /\ rec.dispatch = "unknown"
        /\ k = "promotion" => Resumes(rec)}
ResumeProject(rec) == IF Resumes(rec) THEN rec.project ELSE None

-----------------------------------------------------------------------------
(* Workers: the goroutine of a run that executes one job                   *)

WorkerPcs == {"todo", "locking", "recover", "announce", "send", "wait", "resolve", "done"}
Workers ==
    {w \in [pc : WorkerPcs, kind : Kinds, project : Projects \cup {None}, recover : SUBSET Kinds] :
        w.kind = "project" <=> w.project = None}

Idle == [pc |-> "todo", kind |-> "project", project |-> None, recover |-> {}]
Finished == [Idle EXCEPT !.pc = "done"]

(* executeTransaction: the next thing to do once the project ID is known   *)
(* or known to be missing.                                                 *)
NextStep(project, recover) ==
    LET k == IF project = None THEN "project" ELSE "promotion" IN
    [pc |-> IF k \in recover THEN "recover" ELSE "announce",
     kind |-> k, project |-> project, recover |-> recover]

Active == {"loading", "creating", "running"}
RunPcs == Active \cup {"idle", "ended", "dead"}
Reasons == {"unread", "error_response", "late"}

ObjectsOf(k, j) == {o \in official \cup inflight : o.kind = k /\ o.job = j}

TypeOK ==
    /\ saved \in BOOLEAN
    /\ journal \in [Jobs -> JournalJob]
    /\ scope \in Runs \cup {None}
    /\ lock \in [Advertisers -> (Runs \X Jobs) \cup {None}]
    /\ runPc \in [Runs -> RunPcs]
    /\ memory \in [Runs -> [Jobs -> JournalJob]]
    /\ worker \in [Runs -> [Jobs -> Workers]]
    /\ inflight \subseteq Objects
    /\ official \subseteq Objects
    /\ forgotten \subseteq Reasons \X Kinds \X Jobs

Init ==
    /\ saved = FALSE
    /\ journal = NewJournal
    /\ scope = None
    /\ lock = [a \in Advertisers |-> None]
    /\ runPc = [r \in Runs |-> "idle"]
    /\ memory = [r \in Runs |-> NewJournal]
    /\ worker = [r \in Runs |-> [j \in Jobs |-> Idle]]
    /\ inflight = {} /\ official = {}
    /\ forgotten = {}

apiVars == <<inflight, official>>
runVars == <<saved, scope, runPc>>

-----------------------------------------------------------------------------
(* A run: start, load or create the journal, end, crash                    *)

Begin(r) ==
    /\ runPc[r] = "idle"
    /\ ScopeLocked => scope = None
    /\ scope' = IF ScopeLocked THEN r ELSE scope
    /\ runPc' = [runPc EXCEPT ![r] = "loading"]
    /\ UNCHANGED <<saved, journal, lock, memory, worker, apiVars, forgotten>>

(* A completed upload journal is not resumed: findUploadJournal passes it  *)
(* over and the run starts another batch, outside this journal.            *)
LoadJournal(r) ==
    /\ runPc[r] = "loading"
    /\ ~(ScopeLocked /\ saved /\ \A j \in Jobs : Skipped(journal[j]))
    /\ memory' = [memory EXCEPT ![r] = journal]
    /\ runPc' = [runPc EXCEPT ![r] = IF saved THEN "running" ELSE "creating"]
    /\ UNCHANGED <<saved, journal, scope, lock, worker, apiVars, forgotten>>

CreateJournal(r) ==
    /\ runPc[r] = "creating"
    /\ saved' = TRUE
    /\ journal' = memory[r]
    /\ runPc' = [runPc EXCEPT ![r] = "running"]
    /\ UNCHANGED <<scope, lock, memory, worker, apiVars, forgotten>>

(* The process is gone: its memory is lost and its file locks are free.    *)
Leave(r, pc) ==
    /\ runPc' = [runPc EXCEPT ![r] = pc]
    /\ scope' = IF scope = r THEN None ELSE scope
    /\ lock' = [a \in Advertisers |-> IF \E j \in Jobs : lock[a] = <<r, j>> THEN None ELSE lock[a]]
    /\ memory' = [memory EXCEPT ![r] = NewJournal]
    /\ worker' = [worker EXCEPT ![r] = [j \in Jobs |-> Finished]]
    /\ UNCHANGED <<saved, journal, apiVars, forgotten>>

EndRun(r) ==
    /\ \/ runPc[r] = "loading" /\ ScopeLocked /\ saved /\ \A j \in Jobs : Skipped(journal[j])
       \/ runPc[r] = "running" /\ \A j \in Jobs : worker[r][j].pc = "done"
    /\ Leave(r, "ended")

(* Also a load or create that fails, and an interrupt.                     *)
Crash(r) == runPc[r] \in Active /\ Leave(r, "dead")

-----------------------------------------------------------------------------
(* A worker                                                                *)

At(r, j, pc) == runPc[r] = "running" /\ worker[r][j].pc = pc

Continue(r, j, w) ==
    /\ worker' = [worker EXCEPT ![r][j] = w]
    /\ UNCHANGED lock

Finish(r, j) ==
    /\ worker' = [worker EXCEPT ![r][j] = Finished]
    /\ lock' = [lock EXCEPT ![AdvertiserOf[j]] = None]

(* The Checkpoint callback: update the in-memory journal, save all of it.  *)
(* A save that reports an error ends the job, whether or not it reached    *)
(* the disk.                                                               *)
Record(r, j, rec) == memory' = [memory EXCEPT ![r][j] = rec]
(* Mutant: a save writes the one job and not the others.                   *)
WrittenAlone(r, j, rec) == [NewJournal EXCEPT ![j] = rec]
Written(r, j, rec) == [memory[r] EXCEPT ![j] = rec]

CheckpointThen(r, j, rec, w) ==
    /\ Record(r, j, rec)
    /\ \/ journal' = Written(r, j, rec) /\ Continue(r, j, w)
       \/ journal' \in {journal, Written(r, j, rec)} /\ Finish(r, j)

CheckpointAndFinish(r, j, rec) ==
    /\ Record(r, j, rec)
    /\ journal' \in {journal, Written(r, j, rec)}
    /\ Finish(r, j)

(* The object of the current stage is known to exist.                      *)
Succeed(r, j, id, dispatch) ==
    LET w == worker[r][j] IN
    \/ /\ w.kind = "project"
       /\ CheckpointThen(r, j, Applied(memory[r][j], "project_created", id, None, dispatch),
                         NextStep(id, w.recover))
    \/ /\ w.kind = "promotion"
       /\ CheckpointAndFinish(r, j, Applied(memory[r][j], "completed", w.project, id, dispatch))

Fail(r, j, status, dispatch) ==
    CheckpointAndFinish(r, j, Applied(memory[r][j], status, worker[r][j].project, None, dispatch))

(* History: a verdict that leaves key (k, j) free to be created again      *)
(* although an object of it exists or is still on its way.                 *)
Forget(reason, k, j) ==
    forgotten' = IF ObjectsOf(k, j) = {} THEN forgotten ELSE forgotten \cup {<<reason, k, j>>}

ActiveGroups(r) ==
    {a \in Advertisers :
        \E i, l \in Jobs : /\ AdvertiserOf[i] = a /\ worker[r][i].pc # "todo"
                           /\ AdvertiserOf[l] = a /\ worker[r][l].pc # "done"}

(* Mutant: a job waits for itself.                                         *)
PredecessorsAndSelf(j) == {i \in Jobs : AdvertiserOf[i] = AdvertiserOf[j] /\ Rank[i] <= Rank[j]}
Predecessors(j) == {i \in Jobs : AdvertiserOf[i] = AdvertiserOf[j] /\ Rank[i] < Rank[j]}

(* executeJob: the journal record is read here, before the lock is taken.  *)
StartJob(r, j) ==
    LET rec == memory[r][j] IN
    /\ At(r, j, "todo")
    /\ \A i \in Predecessors(j) : worker[r][i].pc = "done"
    /\ AdvertiserOf[j] \in ActiveGroups(r) \/ Cardinality(ActiveGroups(r)) < MaxConcurrency
    /\ \/ worker' = [worker EXCEPT ![r][j] = Finished]    \* skipped, or blocked before any write
       \/ /\ ~Skipped(rec) /\ ~BlockedAmbiguous(rec)
          /\ worker' = [worker EXCEPT ![r][j] =
                 [NextStep(ResumeProject(rec), Recovers(rec)) EXCEPT !.pc = "locking"]]
    /\ UNCHANGED <<runVars, journal, lock, memory, apiVars, forgotten>>

(* Mutant: the lock does not exclude another process.                      *)
AcquireTakenLock(r, j) ==
    /\ At(r, j, "locking")
    /\ lock' = [lock EXCEPT ![AdvertiserOf[j]] = <<r, j>>]
    /\ worker' = [worker EXCEPT ![r][j] = NextStep(worker[r][j].project, worker[r][j].recover)]
    /\ UNCHANGED <<runVars, journal, memory, apiVars, forgotten>>

AcquireLock(r, j) ==
    /\ At(r, j, "locking")
    /\ lock[AdvertiserOf[j]] = None
    /\ lock' = [lock EXCEPT ![AdvertiserOf[j]] = <<r, j>>]
    /\ worker' = [worker EXCEPT ![r][j] = NextStep(worker[r][j].project, worker[r][j].recover)]
    /\ UNCHANGED <<runVars, journal, memory, apiVars, forgotten>>

(* No usable token, or the lock was not free within its timeout.           *)
GiveUp(r, j) ==
    /\ At(r, j, "locking")
    /\ worker' = [worker EXCEPT ![r][j] = Finished]
    /\ UNCHANGED <<runVars, journal, lock, memory, apiVars, forgotten>>

(* Mutants: the readback does not compare the name, or the parent.         *)
CandidatesAnyName(k, j, parent) ==
    {o \in official : o.kind = k /\ AdvertiserOf[o.job] = AdvertiserOf[j] /\ o.parent = parent}
CandidatesAnyParent(k, j, parent) ==
    {o \in official : o.kind = k /\ AdvertiserOf[o.job] = AdvertiserOf[j] /\ NameOf[o.job] = NameOf[j]}

(* FindProjects / FindPromotions: exact name, and parent for a promotion.  *)
Candidates(k, j, parent) ==
    {o \in official : /\ o.kind = k
                      /\ AdvertiserOf[o.job] = AdvertiserOf[j]
                      /\ NameOf[o.job] = NameOf[j]
                      /\ o.parent = parent}

(* reconcileProject / reconcilePromotion: a dispatch of an earlier run is  *)
(* read back before anything is written.  Neither a failed read nor an     *)
(* empty one keeps a dispatch state in the journal.                        *)
Recover(r, j) ==
    LET w == worker[r][j]
        found == Candidates(w.kind, j, w.project)
    IN
    /\ At(r, j, "recover")
    /\ \/ Fail(r, j, FailedStatus[w.kind], "none") /\ Forget("unread", w.kind, j)
       \/ found = {} /\ Fail(r, j, FailedStatus[w.kind], "none") /\ Forget("late", w.kind, j)
       \/ \E id \in found : found = {id} /\ Succeed(r, j, id, "none") /\ UNCHANGED forgotten
       \/ (\E a, b \in found : a # b) /\ Fail(r, j, "ambiguous", "none") /\ UNCHANGED forgotten
    /\ UNCHANGED <<runVars, apiVars>>

(* Mutant: the dispatch is noted in memory only.                           *)
AnnounceUnsaved(r, j) ==
    LET w == worker[r][j] IN
    /\ At(r, j, "announce")
    /\ Record(r, j, Applied(memory[r][j], Dispatching[w.kind], w.project, None, "none"))
    /\ Continue(r, j, [w EXCEPT !.pc = "send"])
    /\ UNCHANGED <<runVars, journal, apiVars, forgotten>>

(* The dispatch is journalled before it is made.                           *)
Announce(r, j) ==
    LET w == worker[r][j] IN
    /\ At(r, j, "announce")
    /\ CheckpointThen(r, j, Applied(memory[r][j], Dispatching[w.kind], w.project, None, "none"),
                      [w EXCEPT !.pc = "send"])
    /\ UNCHANGED <<runVars, apiVars, forgotten>>

Send(r, j) ==
    LET w == worker[r][j] IN
    /\ At(r, j, "send")
    /\ inflight' = inflight \cup {Requested(w.kind, j, r, w.project)}
    /\ Continue(r, j, [w EXCEPT !.pc = "wait"])
    /\ UNCHANGED <<runVars, journal, memory, official, forgotten>>

(* The request was stopped before transport: budget, payload, cancel.      *)
NotSent(r, j) ==
    /\ At(r, j, "send")
    /\ Fail(r, j, FailedStatus[worker[r][j].kind], "not_sent")
    /\ UNCHANGED <<runVars, apiVars, forgotten>>

Acknowledge(r, j) ==
    LET w == worker[r][j]
        id == Requested(w.kind, j, r, w.project)
    IN
    /\ At(r, j, "wait")
    /\ id \in official
    /\ Succeed(r, j, id, "acknowledged")
    /\ UNCHANGED <<runVars, apiVars, forgotten>>

(* classifyWriteFailure: an envelope error is acknowledged, whether its    *)
(* code is the platform's verdict or a service timeout such as 51010 for a *)
(* request still running.                                                  *)
ErrorResponse(r, j) ==
    LET w == worker[r][j] IN
    /\ At(r, j, "wait")
    /\ Fail(r, j, FailedStatus[w.kind], "acknowledged")
    /\ Forget("error_response", w.kind, j)
    /\ UNCHANGED <<runVars, apiVars>>

(* Timeout, broken connection, unreadable answer: the result is unknown.   *)
Unknown(r, j) ==
    /\ At(r, j, "wait")
    /\ Continue(r, j, [worker[r][j] EXCEPT !.pc = "resolve"])
    /\ UNCHANGED <<runVars, journal, memory, apiVars, forgotten>>

(* resolveProject / resolvePromotion: one readback, the state stays unknown. *)
Resolve(r, j) ==
    LET w == worker[r][j]
        found == Candidates(w.kind, j, w.project)
    IN
    /\ At(r, j, "resolve")
    /\ \/ Fail(r, j, FailedStatus[w.kind], "unknown")      \* read failed, or found nothing
       \/ \E id \in found : found = {id} /\ Succeed(r, j, id, "unknown")
       \/ (\E a, b \in found : a # b) /\ Fail(r, j, "ambiguous", "unknown")
    /\ UNCHANGED <<runVars, apiVars, forgotten>>

-----------------------------------------------------------------------------
(* The platform (external)                                                 *)

Land(o) ==
    /\ o \in inflight
    /\ official' = official \cup {o}
    /\ inflight' = inflight \ {o}
    /\ UNCHANGED <<runVars, journal, lock, memory, worker, forgotten>>

Drop(o) ==
    /\ o \in inflight
    /\ inflight' = inflight \ {o}
    /\ UNCHANGED <<runVars, journal, lock, memory, worker, official, forgotten>>

WorkerStep(r, j) ==
    \/ StartJob(r, j) \/ AcquireLock(r, j) \/ GiveUp(r, j)
    \/ Recover(r, j) \/ Announce(r, j) \/ Send(r, j) \/ NotSent(r, j)
    \/ Acknowledge(r, j) \/ ErrorResponse(r, j) \/ Unknown(r, j) \/ Resolve(r, j)

RunStep(r) ==
    \/ LoadJournal(r) \/ CreateJournal(r) \/ EndRun(r)
    \/ \E j \in Jobs : WorkerStep(r, j)

AllRunsOver == (\A r \in Runs : runPc[r] \in {"ended", "dead"}) /\ inflight = {}

Next ==
    \/ \E r \in Runs : Begin(r) \/ RunStep(r) \/ Crash(r)
    \/ \E o \in inflight : Land(o) \/ Drop(o)
    \/ AllRunsOver /\ UNCHANGED vars

Spec == Init /\ [][Next]_vars

(* The scheduler runs every goroutine; file locks poll with a timeout.     *)
FairSpec == Spec /\ \A r \in Runs : WF_vars(RunStep(r))

-----------------------------------------------------------------------------
(* Properties                                                              *)

Forgotten(k, j, reasons) == \E e \in reasons : <<e, k, j>> \in forgotten

(* A key for which no verdict of the given kinds was ever passed has at    *)
(* most one object, landed or on its way: executor.go and batch.go never   *)
(* repeat a create that may have been applied.                             *)
AtMostOneUnless(reasons) ==
    \A k \in Kinds, j \in Jobs :
        ~Forgotten(k, j, reasons) => \A a, b \in ObjectsOf(k, j) : a = b

(* Duplicates come only from the three verdicts that forget an object.     *)
NoDuplicateObjects == AtMostOneUnless(Reasons)

(* A readback that fails while a run recovers an uncertain create is no    *)
(* licence to create again (docs: read back first, never replay blindly).  *)
FailedReadbackIsNotReplayed == AtMostOneUnless({"error_response", "late"})

(* Crash safety of the journal: while an object of a job exists that no    *)
(* verdict forgot, the durable record either names it or sends the next    *)
(* run to read it back, so it is never created from scratch.               *)
Remembered(k, rec) ==
    \/ BlockedAmbiguous(rec)
    \/ k \in Recovers(rec)
    \/ Skipped(rec)
    \/ k = "project" /\ Resumes(rec)
NothingLost ==
    \A k \in Kinds, j \in Jobs :
        ObjectsOf(k, j) # {} /\ ~Forgotten(k, j, Reasons) => Remembered(k, journal[j])

(* What the journal reports is real: a recorded project or promotion       *)
(* exists, and the promotion hangs under the recorded project.             *)
JournalIsTrue ==
    \A j \in Jobs :
        /\ journal[j].project # None => journal[j].project \in official
        /\ journal[j].promotion # None => /\ journal[j].promotion \in official
                                         /\ journal[j].promotion.parent = journal[j].project

(* Reconciliation by name never adopts an object another job asked for.    *)
NoForeignAdoption ==
    \A j \in Jobs : /\ journal[j].project # None => journal[j].project.job = j
                    /\ journal[j].promotion # None => journal[j].promotion.job = j

(* What exists on the platform stays with the job that asked for it: its   *)
(* record keeps the way to it, and no other job's record takes it.         *)
ObjectsStayWithTheirJobs == NothingLost /\ NoForeignAdoption

(* Official writes of one advertiser are serialised across processes: a    *)
(* worker between its first checkpoint and its last holds the lock alone.  *)
Writing(r, j) == worker[r][j].pc \in {"recover", "announce", "send", "wait", "resolve"}
WritersExcluded ==
    \A r, q \in Runs, i, j \in Jobs :
        Writing(r, i) /\ Writing(q, j) /\ AdvertiserOf[i] = AdvertiserOf[j] => r = q /\ i = j

(* A job the journal shows completed or ambiguous is left alone: no run    *)
(* journals or sends another create for it.                                *)
SettledJobIsSkipped ==
    [][\A j \in Jobs : Skipped(journal[j]) \/ BlockedAmbiguous(journal[j]) =>
         /\ \A k \in Kinds : journal'[j].status # Dispatching[k]
         /\ \A o \in inflight' \ inflight : o.job # j]_vars

(* A run that began ends, whatever locks, readbacks and answers do.        *)
RunEnds == \A r \in Runs : runPc[r] = "loading" ~> runPc[r] \in {"ended", "dead"}

(* The batch implements the ledger.                                        *)
Ledger == INSTANCE PlanLedger WITH
    objects <- official, excused <- {<<f[2], f[3]>> : f \in forgotten}
LedgerSpec == Ledger!Spec
=============================================================================
