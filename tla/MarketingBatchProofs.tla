------------------------ MODULE MarketingBatchProofs ------------------------
(***************************************************************************)
(* What holds of MarketingBatch for every set of runs, jobs, advertisers   *)
(* and names.                                                              *)
(***************************************************************************)
EXTENDS MarketingBatch, TLAPS

-----------------------------------------------------------------------------
(* Lemmas about the operators                                              *)

(* The next step of a transaction is a well-formed worker state.           *)
LEMMA NextStepType ==
    ASSUME NEW project \in Projects \cup {None}, NEW recover \in SUBSET Kinds
    PROVE  /\ NextStep(project, recover) \in Workers
           /\ NextStep(project, recover).project = project
           /\ NextStep(project, recover).recover = recover
           /\ NextStep(project, recover).pc \in {"recover", "announce"}
           /\ project = None <=> NextStep(project, recover).kind = "project"
  BY DEF NextStep, Workers, WorkerPcs, Kinds

(* A checkpoint yields a well-formed journal record.                       *)
LEMMA AppliedType ==
    ASSUME NEW rec \in JournalJob, NEW status \in Statuses,
           NEW project \in Projects \cup {None}, NEW promotion \in Promotions \cup {None},
           NEW dispatch \in DispatchStates
    PROVE  Applied(rec, status, project, promotion, dispatch) \in JournalJob
  BY DEF Applied, JournalJob

(* A request of a well-formed worker names an official object.             *)
LEMMA RequestedType ==
    ASSUME NEW w \in Workers, NEW j \in Jobs, NEW r \in Runs
    PROVE  /\ Requested(w.kind, j, r, w.project) \in Objects
           /\ w.kind = "project" => Requested(w.kind, j, r, w.project) \in Projects
           /\ w.kind = "promotion" => Requested(w.kind, j, r, w.project) \in Promotions
  BY DEF Requested, Workers, Kinds, Objects, Projects, Promotions

(* An official object of a kind belongs to that kind's identifiers.        *)
LEMMA ObjectKind ==
    ASSUME NEW o \in Objects
    PROVE  /\ o.kind \in Kinds
           /\ o.job \in Jobs
           /\ o.kind = "project" => o \in Projects
           /\ o.kind = "promotion" => o \in Promotions
           /\ o # None
  BY NoneAssumption DEF Objects, Projects, Promotions, Kinds

LEMMA RecoversType == ASSUME NEW rec \in JournalJob PROVE Recovers(rec) \in SUBSET Kinds
  BY DEF Recovers

LEMMA ResumeProjectType ==
    ASSUME NEW rec \in JournalJob PROVE ResumeProject(rec) \in Projects \cup {None}
  BY DEF ResumeProject, JournalJob

LEMMA StatusTypes ==
    /\ \A k \in Kinds : Dispatching[k] \in Statuses /\ FailedStatus[k] \in Statuses
    /\ {"project_created", "completed", "ambiguous"} \subseteq Statuses
    /\ {"none", "acknowledged", "not_sent", "unknown"} \subseteq DispatchStates
  BY DEF Kinds, Dispatching, FailedStatus, Statuses, DispatchStates

LEMMA IdleType == Idle \in Workers /\ Finished \in Workers
  BY DEF Idle, Finished, Workers, WorkerPcs, Kinds

LEMMA PendingType == Pending \in JournalJob /\ NewJournal \in [Jobs -> JournalJob]
  BY DEF Pending, NewJournal, JournalJob, Statuses, DispatchStates

-----------------------------------------------------------------------------
(* Type correctness                                                        *)

(* A checkpoint of a well-formed record leaves every file and every        *)
(* goroutine's state well formed, saved or not, finished or not.           *)
LEMMA CheckpointType ==
    ASSUME TypeOK, NEW r \in Runs, NEW j \in Jobs, NEW rec \in JournalJob, NEW w \in Workers,
           CheckpointThen(r, j, rec, w) \/ CheckpointAndFinish(r, j, rec)
    PROVE  /\ journal' \in [Jobs -> JournalJob]
           /\ memory' \in [Runs -> [Jobs -> JournalJob]]
           /\ worker' \in [Runs -> [Jobs -> Workers]]
           /\ lock' \in [Advertisers -> (Runs \X Jobs) \cup {None}]
  <1>1. /\ memory' = [memory EXCEPT ![r][j] = rec]
        /\ journal' \in {journal, Written(r, j, rec)}
        /\ Continue(r, j, w) \/ Finish(r, j)
    BY DEF CheckpointThen, CheckpointAndFinish, Record
  <1>2. memory' \in [Runs -> [Jobs -> JournalJob]]
    BY <1>1 DEF TypeOK
  <1>3. journal' \in [Jobs -> JournalJob]
    BY <1>1 DEF TypeOK, Written
  <1>4. worker' \in [Runs -> [Jobs -> Workers]] /\ lock' \in [Advertisers -> (Runs \X Jobs) \cup {None}]
    <2>1. CASE Continue(r, j, w)
      BY <2>1 DEF TypeOK, Continue
    <2>2. CASE Finish(r, j)
      BY <2>2, IdleType, MappingAssumption DEF TypeOK, Finish
    <2> QED BY <1>1, <2>1, <2>2
  <1> QED BY <1>2, <1>3, <1>4

(* The same of a stage that ends well, with the identifier of an object.   *)
LEMMA SucceedType ==
    ASSUME TypeOK, NEW r \in Runs, NEW j \in Jobs, NEW id \in Objects, NEW dispatch \in DispatchStates,
           id.kind = worker[r][j].kind, Succeed(r, j, id, dispatch)
    PROVE  /\ journal' \in [Jobs -> JournalJob]
           /\ memory' \in [Runs -> [Jobs -> JournalJob]]
           /\ worker' \in [Runs -> [Jobs -> Workers]]
           /\ lock' \in [Advertisers -> (Runs \X Jobs) \cup {None}]
  <1> DEFINE w == worker[r][j]
  <1>1. w \in Workers /\ memory[r][j] \in JournalJob
    BY DEF TypeOK
  <1>2. w.project \in Projects \cup {None} /\ w.recover \in SUBSET Kinds
    BY <1>1 DEF Workers
  <1>3. CASE w.kind = "project"
    <2>1. id \in Projects
      BY <1>3, ObjectKind
    <2>2. Applied(memory[r][j], "project_created", id, None, dispatch) \in JournalJob
      BY <1>1, <2>1, AppliedType, StatusTypes
    <2>3. NextStep(id, w.recover) \in Workers
      BY <1>2, <2>1, NextStepType
    <2>4. CheckpointThen(r, j, Applied(memory[r][j], "project_created", id, None, dispatch),
                         NextStep(id, w.recover))
      BY <1>3 DEF Succeed
    <2> QED BY <2>2, <2>3, <2>4, CheckpointType
  <1>4. CASE w.kind = "promotion"
    <2>1. id \in Promotions
      BY <1>4, ObjectKind
    <2>2. Applied(memory[r][j], "completed", w.project, id, dispatch) \in JournalJob
      BY <1>1, <1>2, <2>1, AppliedType, StatusTypes
    <2>3. CheckpointAndFinish(r, j, Applied(memory[r][j], "completed", w.project, id, dispatch))
      BY <1>4 DEF Succeed
    <2> QED BY <2>2, <2>3, IdleType, CheckpointType
  <1> QED BY <1>1, <1>3, <1>4 DEF Workers, Kinds

(* The same of a stage that ends badly.                                    *)
LEMMA FailType ==
    ASSUME TypeOK, NEW r \in Runs, NEW j \in Jobs, NEW status \in Statuses,
           NEW dispatch \in DispatchStates, Fail(r, j, status, dispatch)
    PROVE  /\ journal' \in [Jobs -> JournalJob]
           /\ memory' \in [Runs -> [Jobs -> JournalJob]]
           /\ worker' \in [Runs -> [Jobs -> Workers]]
           /\ lock' \in [Advertisers -> (Runs \X Jobs) \cup {None}]
  <1>1. worker[r][j].project \in Projects \cup {None} /\ memory[r][j] \in JournalJob
    BY DEF TypeOK, Workers
  <1>2. Applied(memory[r][j], status, worker[r][j].project, None, dispatch) \in JournalJob
    BY <1>1, AppliedType
  <1> QED BY <1>2, IdleType, CheckpointType DEF Fail

(* Only objects of the platform, and only of the stage asked for, are read *)
(* back.                                                                   *)
LEMMA CandidatesType ==
    ASSUME TypeOK, NEW k, NEW j, NEW parent, NEW id \in Candidates(k, j, parent)
    PROVE  id \in Objects /\ id \in official /\ id.kind = k /\ id.parent = parent
  BY DEF TypeOK, Candidates

(* The goroutines of a run keep the state well formed.                     *)
LEMMA WorkerStepType ==
    ASSUME TypeOK, NEW r \in Runs, NEW j \in Jobs, WorkerStep(r, j)
    PROVE  TypeOK'
  <1> DEFINE w == worker[r][j]
  <1>w. w \in Workers /\ memory[r][j] \in JournalJob
    BY DEF TypeOK
  <1>k. w.kind \in Kinds /\ w.project \in Projects \cup {None} /\ w.recover \in SUBSET Kinds
    BY <1>w DEF Workers
  <1>f. \A reason \in Reasons : Forget(reason, w.kind, j) => forgotten' \subseteq Reasons \X Kinds \X Jobs
    BY <1>k DEF TypeOK, Forget
  <1>1. CASE StartJob(r, j)
    <2>1. NextStep(ResumeProject(memory[r][j]), Recovers(memory[r][j])) \in Workers
      BY <1>w, RecoversType, ResumeProjectType, NextStepType
    <2>2. [NextStep(ResumeProject(memory[r][j]), Recovers(memory[r][j])) EXCEPT !.pc = "locking"] \in Workers
      BY <2>1 DEF Workers, WorkerPcs
    <2>3. \E x \in Workers : worker' = [worker EXCEPT ![r][j] = x]
      BY <1>1, <2>2, IdleType DEF StartJob
    <2>4. worker' \in [Runs -> [Jobs -> Workers]]
      BY <2>3 DEF TypeOK
    <2> QED BY <1>1, <2>4 DEF StartJob, TypeOK, runVars, apiVars
  <1>2. CASE AcquireLock(r, j)
    <2>1. NextStep(w.project, w.recover) \in Workers
      BY <1>k, NextStepType
    <2> QED BY <1>2, <2>1 DEF AcquireLock, TypeOK, runVars, apiVars
  <1>3. CASE GiveUp(r, j)
    BY <1>3, IdleType DEF GiveUp, TypeOK, runVars, apiVars
  <1>4. CASE Recover(r, j)
    <2> DEFINE found == Candidates(w.kind, j, w.project)
    <2>1. \/ /\ \E s \in {FailedStatus[w.kind], "ambiguous"} : Fail(r, j, s, "none")
             /\ forgotten' \subseteq Reasons \X Kinds \X Jobs
          \/ \E id \in found : Succeed(r, j, id, "none") /\ UNCHANGED forgotten
      BY <1>4, <1>f DEF Recover, Reasons, TypeOK
    <2>2. /\ journal' \in [Jobs -> JournalJob]
          /\ memory' \in [Runs -> [Jobs -> JournalJob]]
          /\ worker' \in [Runs -> [Jobs -> Workers]]
          /\ lock' \in [Advertisers -> (Runs \X Jobs) \cup {None}]
      BY <1>k, <2>1, CandidatesType, SucceedType, FailType, StatusTypes
    <2> QED BY <1>4, <2>1, <2>2 DEF Recover, TypeOK, runVars, apiVars
  <1>5. CASE Announce(r, j)
    <2>1. Applied(memory[r][j], Dispatching[w.kind], w.project, None, "none") \in JournalJob
      BY <1>w, <1>k, AppliedType, StatusTypes
    <2>2. [w EXCEPT !.pc = "send"] \in Workers
      BY <1>w DEF Workers, WorkerPcs
    <2> QED BY <1>5, <2>1, <2>2, CheckpointType DEF Announce, TypeOK, runVars, apiVars
  <1>6. CASE Send(r, j)
    <2>1. [w EXCEPT !.pc = "wait"] \in Workers
      BY <1>w DEF Workers, WorkerPcs
    <2> QED BY <1>6, <1>w, <2>1, RequestedType DEF Send, Continue, TypeOK, runVars
  <1>7. CASE NotSent(r, j)
    BY <1>7, <1>k, FailType, StatusTypes DEF NotSent, TypeOK, runVars, apiVars
  <1>8. CASE Acknowledge(r, j)
    <2>1. /\ Requested(w.kind, j, r, w.project) \in Objects
          /\ Requested(w.kind, j, r, w.project).kind = w.kind
      BY <1>w, RequestedType DEF Requested
    <2> QED BY <1>8, <2>1, SucceedType, StatusTypes DEF Acknowledge, TypeOK, runVars, apiVars
  <1>9. CASE ErrorResponse(r, j)
    BY <1>9, <1>f, <1>k, FailType, StatusTypes DEF ErrorResponse, Reasons, TypeOK, runVars, apiVars
  <1>10. CASE Unknown(r, j)
    <2>1. [w EXCEPT !.pc = "resolve"] \in Workers
      BY <1>w DEF Workers, WorkerPcs
    <2> QED BY <1>10, <2>1 DEF Unknown, Continue, TypeOK, runVars, apiVars
  <1>11. CASE Resolve(r, j)
    <2> DEFINE found == Candidates(w.kind, j, w.project)
    <2>1. \/ \E s \in {FailedStatus[w.kind], "ambiguous"} : Fail(r, j, s, "unknown")
          \/ \E id \in found : Succeed(r, j, id, "unknown")
      BY <1>11 DEF Resolve
    <2>2. /\ journal' \in [Jobs -> JournalJob]
          /\ memory' \in [Runs -> [Jobs -> JournalJob]]
          /\ worker' \in [Runs -> [Jobs -> Workers]]
          /\ lock' \in [Advertisers -> (Runs \X Jobs) \cup {None}]
      BY <1>k, <2>1, CandidatesType, SucceedType, FailType, StatusTypes
    <2> QED BY <1>11, <2>2 DEF Resolve, TypeOK, runVars, apiVars
  <1> QED
    BY <1>1, <1>2, <1>3, <1>4, <1>5, <1>6, <1>7, <1>8, <1>9, <1>10, <1>11 DEF WorkerStep

(* An end or a crash of a run leaves the state well formed.                *)
LEMMA LeaveType ==
    ASSUME TypeOK, NEW r \in Runs, NEW pc \in RunPcs, Leave(r, pc)
    PROVE  TypeOK'
  BY IdleType, PendingType DEF Leave, TypeOK, apiVars

(* TypeOK: every journal record, in the file and in each run's memory, and *)
(* every goroutine of batch.go and executor.go stays well formed.          *)
THEOREM TypeCorrect == Spec => []TypeOK
  <1>1. ASSUME Init PROVE TypeOK
    <2>1. worker \in [Runs -> [Jobs -> Workers]] /\ memory \in [Runs -> [Jobs -> JournalJob]]
      BY <1>1, IdleType, PendingType DEF Init
    <2> QED BY <1>1, <2>1, PendingType DEF Init, TypeOK, RunPcs, Active
  <1>2. TypeOK /\ [Next]_vars => TypeOK'
    <2> SUFFICES ASSUME TypeOK, [Next]_vars PROVE TypeOK'
      OBVIOUS
    <2>1. ASSUME NEW r \in Runs, Begin(r) PROVE TypeOK'
      BY <2>1 DEF Begin, TypeOK, RunPcs, Active, apiVars
    <2>2. ASSUME NEW r \in Runs, LoadJournal(r) PROVE TypeOK'
      BY <2>2 DEF LoadJournal, TypeOK, RunPcs, Active, apiVars
    <2>3. ASSUME NEW r \in Runs, CreateJournal(r) PROVE TypeOK'
      BY <2>3 DEF CreateJournal, TypeOK, RunPcs, Active, apiVars
    <2>4. ASSUME NEW r \in Runs, EndRun(r) \/ Crash(r) PROVE TypeOK'
      BY <2>4, LeaveType DEF EndRun, Crash, RunPcs
    <2>5. ASSUME NEW r \in Runs, NEW j \in Jobs, WorkerStep(r, j) PROVE TypeOK'
      BY <2>5, WorkerStepType
    <2>6. ASSUME NEW o \in inflight, Land(o) \/ Drop(o) PROVE TypeOK'
      BY <2>6 DEF Land, Drop, TypeOK, runVars
    <2>7. CASE UNCHANGED vars
      BY <2>7 DEF vars, TypeOK
    <2> QED
      BY <2>1, <2>2, <2>3, <2>4, <2>5, <2>6, <2>7 DEF Next, RunStep
  <1> QED BY <1>1, <1>2, PTL DEF Spec

-----------------------------------------------------------------------------
(* Mutual exclusion of writers                                             *)

(* A writing goroutine holds the lock file of its advertiser.              *)
LockHeld == \A r \in Runs, j \in Jobs : Writing(r, j) => lock[AdvertiserOf[j]] = <<r, j>>

(* The goroutine goes on with its job, locks unchanged.                    *)
Continues(r, j) == \E w : Continue(r, j, w)

(* A job that ends gives back a lock nobody else relies on; one that goes  *)
(* on keeps its own.                                                       *)
LEMMA LockKept ==
    ASSUME TypeOK, LockHeld, NEW r \in Runs, NEW j \in Jobs, Writing(r, j),
           Continues(r, j) \/ Finish(r, j)
    PROVE  LockHeld'
  <1>1. CASE Continues(r, j)
    <2> SUFFICES ASSUME NEW q \in Runs, NEW i \in Jobs, Writing(q, i)'
                 PROVE  lock'[AdvertiserOf[i]] = <<q, i>>
      BY DEF LockHeld
    <2>1. Writing(q, i)
      BY <1>1 DEF Continues, Continue, Writing, TypeOK
    <2> QED BY <1>1, <2>1 DEF Continues, Continue, LockHeld
  <1>2. CASE Finish(r, j)
    <2> SUFFICES ASSUME NEW q \in Runs, NEW i \in Jobs, Writing(q, i)'
                 PROVE  lock'[AdvertiserOf[i]] = <<q, i>>
      BY DEF LockHeld
    <2>1. Writing(q, i) /\ <<q, i>> # <<r, j>>
      BY <1>2 DEF Finish, Finished, Idle, Writing, TypeOK
    <2>2. lock[AdvertiserOf[i]] = <<q, i>> /\ lock[AdvertiserOf[j]] = <<r, j>>
      BY <2>1 DEF LockHeld
    <2>3. AdvertiserOf[i] # AdvertiserOf[j]
      BY <2>1, <2>2
    <2> QED BY <1>2, <2>2, <2>3, MappingAssumption DEF Finish, TypeOK
  <1> QED BY <1>1, <1>2

(* Every step a writing goroutine takes continues or finishes its job.     *)
LEMMA WritingStep ==
    ASSUME TypeOK, NEW r \in Runs, NEW j \in Jobs,
           \/ Recover(r, j) \/ Announce(r, j) \/ Send(r, j) \/ NotSent(r, j)
           \/ Acknowledge(r, j) \/ ErrorResponse(r, j) \/ Unknown(r, j) \/ Resolve(r, j)
    PROVE  Writing(r, j) /\ (Continues(r, j) \/ Finish(r, j))
  <1>1. Writing(r, j)
    BY DEF Recover, Announce, Send, NotSent, Acknowledge, ErrorResponse, Unknown, Resolve, At, Writing
  <1>2. ASSUME NEW rec, CheckpointAndFinish(r, j, rec) PROVE Finish(r, j)
    BY <1>2 DEF CheckpointAndFinish
  <1>3. ASSUME NEW rec, NEW w, CheckpointThen(r, j, rec, w) PROVE Continues(r, j) \/ Finish(r, j)
    BY <1>3 DEF CheckpointThen, Continues
  <1>4. ASSUME NEW status, NEW dispatch, Fail(r, j, status, dispatch) PROVE Finish(r, j)
    BY <1>2, <1>4 DEF Fail
  <1>5. ASSUME NEW id, NEW dispatch, Succeed(r, j, id, dispatch) PROVE Continues(r, j) \/ Finish(r, j)
    BY <1>2, <1>3, <1>5 DEF Succeed
  <1>6. CASE Recover(r, j) \/ Resolve(r, j)
    <2>1. \/ \E status, dispatch : Fail(r, j, status, dispatch)
          \/ \E id, dispatch : Succeed(r, j, id, dispatch)
      BY <1>6 DEF Recover, Resolve
    <2> QED BY <1>1, <1>4, <1>5, <2>1
  <1>7. CASE Announce(r, j)
    BY <1>1, <1>3, <1>7 DEF Announce
  <1>8. CASE Send(r, j) \/ Unknown(r, j)
    BY <1>1, <1>8 DEF Send, Unknown, Continues
  <1>9. CASE NotSent(r, j) \/ Acknowledge(r, j) \/ ErrorResponse(r, j)
    BY <1>1, <1>4, <1>5, <1>9 DEF NotSent, Acknowledge, ErrorResponse
  <1> QED BY <1>1, <1>6, <1>7, <1>8, <1>9

(* WritersExcluded: two goroutines, of whatever runs, never write to one   *)
(* advertiser at once (write_safety.go WithAdvertiserLock).                *)
THEOREM MutualExclusion == Spec => []WritersExcluded
  <1>1. Init => LockHeld
    BY DEF Init, LockHeld, Writing, Idle
  <1>2. TypeOK /\ LockHeld /\ [Next]_vars => LockHeld'
    <2> SUFFICES ASSUME TypeOK, LockHeld, [Next]_vars PROVE LockHeld'
      OBVIOUS
    <2>1. ASSUME NEW r \in Runs, Begin(r) \/ LoadJournal(r) \/ CreateJournal(r) PROVE LockHeld'
      BY <2>1 DEF Begin, LoadJournal, CreateJournal, LockHeld, Writing
    <2>2. ASSUME NEW r \in Runs, NEW pc, Leave(r, pc) PROVE LockHeld'
      <3> SUFFICES ASSUME NEW q \in Runs, NEW i \in Jobs, Writing(q, i)'
                   PROVE  lock'[AdvertiserOf[i]] = <<q, i>>
        BY DEF LockHeld
      <3>1. q # r /\ Writing(q, i)
        BY <2>2 DEF Leave, Writing, Finished, Idle, TypeOK
      <3>2. lock[AdvertiserOf[i]] = <<q, i>>
        BY <3>1 DEF LockHeld
      <3> QED BY <2>2, <3>1, <3>2, MappingAssumption DEF Leave
    <2>3. ASSUME NEW r \in Runs, NEW j \in Jobs, WorkerStep(r, j) PROVE LockHeld'
      <3>1. CASE StartJob(r, j)
        <4> SUFFICES ASSUME NEW q \in Runs, NEW i \in Jobs, Writing(q, i)'
                     PROVE  lock'[AdvertiserOf[i]] = <<q, i>>
          BY DEF LockHeld
        <4> DEFINE next == [NextStep(ResumeProject(memory[r][j]), Recovers(memory[r][j])) EXCEPT !.pc = "locking"]
        <4>1. next.pc = "locking" /\ Finished.pc = "done"
          BY DEF NextStep, Finished, Idle
        <4>2. worker' = [worker EXCEPT ![r][j] = Finished] \/ worker' = [worker EXCEPT ![r][j] = next]
          BY <3>1 DEF StartJob
        <4> HIDE DEF next
        <4>3. Writing(q, i)
          BY <4>1, <4>2 DEF Writing, TypeOK
        <4> QED BY <3>1, <4>3 DEF StartJob, LockHeld
      <3>2. CASE AcquireLock(r, j)
        <4> SUFFICES ASSUME NEW q \in Runs, NEW i \in Jobs, Writing(q, i)'
                     PROVE  lock'[AdvertiserOf[i]] = <<q, i>>
          BY DEF LockHeld
        <4>1. CASE <<q, i>> = <<r, j>>
          BY <3>2, <4>1, MappingAssumption DEF AcquireLock, TypeOK
        <4>2. CASE <<q, i>> # <<r, j>>
          <5>1. Writing(q, i)
            BY <3>2, <4>2 DEF AcquireLock, Writing, TypeOK
          <5>2. lock[AdvertiserOf[i]] = <<q, i>> /\ <<q, i>> # None
            BY <5>1, NoneAssumption DEF LockHeld
          <5>3. AdvertiserOf[i] # AdvertiserOf[j]
            BY <3>2, <5>2 DEF AcquireLock
          <5> QED BY <3>2, <5>2, <5>3, MappingAssumption DEF AcquireLock, TypeOK
        <4> QED BY <4>1, <4>2
      <3>3. CASE GiveUp(r, j)
        BY <3>3 DEF GiveUp, LockHeld, Writing, Finished, Idle, TypeOK
      <3>4. CASE \/ Recover(r, j) \/ Announce(r, j) \/ Send(r, j) \/ NotSent(r, j)
                 \/ Acknowledge(r, j) \/ ErrorResponse(r, j) \/ Unknown(r, j) \/ Resolve(r, j)
        BY <3>4, WritingStep, LockKept
      <3> QED BY <2>3, <3>1, <3>2, <3>3, <3>4 DEF WorkerStep
    <2>4. ASSUME NEW o \in inflight, Land(o) \/ Drop(o) PROVE LockHeld'
      BY <2>4 DEF Land, Drop, LockHeld, Writing
    <2>5. CASE UNCHANGED vars
      BY <2>5 DEF vars, LockHeld, Writing
    <2> QED
      BY <2>1, <2>2, <2>3, <2>4, <2>5 DEF Next, RunStep, EndRun, Crash
  <1>3. LockHeld => WritersExcluded
    BY DEF LockHeld, WritersExcluded
  <1> QED BY <1>1, <1>2, <1>3, TypeCorrect, PTL DEF Spec

-----------------------------------------------------------------------------
(* The journal tells the truth                                             *)

Busy(r, j) == worker[r][j].pc \notin {"todo", "done"}

(* A record names only objects that exist; a promotion is recorded last,   *)
(* under the recorded project.                                             *)
TrueRecord(rec) ==
    /\ rec.project # None => rec.project \in official
    /\ rec.promotion # None => /\ rec.status = "completed"
                               /\ rec.promotion \in official
                               /\ rec.promotion.parent = rec.project

(* A goroutine at work has no promotion on record and a project that exists. *)
TrueWorker(r, j) ==
    Busy(r, j) => /\ runPc[r] = "running"
                  /\ memory[r][j].promotion = None
                  /\ worker[r][j].project # None => worker[r][j].project \in official

(* The copies in memory must be true as well: a checkpoint saves them all. *)
Truth ==
    /\ \A j \in Jobs : TrueRecord(journal[j])
    /\ \A r \in Runs, j \in Jobs : TrueRecord(memory[r][j]) /\ TrueWorker(r, j)

(* Saving a true record, and going on with a project that exists or ending *)
(* the job, keeps everything true.                                         *)
LEMMA CheckpointTruth ==
    ASSUME TypeOK, Truth, NEW r \in Runs, NEW j \in Jobs, NEW rec \in JournalJob, NEW w \in Workers,
           TrueRecord(rec), UNCHANGED <<runPc, official>>, runPc[r] = "running",
           \/ /\ CheckpointThen(r, j, rec, w)
              /\ rec.promotion = None
              /\ w.project # None => w.project \in official
           \/ CheckpointAndFinish(r, j, rec)
    PROVE  Truth'
  <1>1. /\ memory' = [memory EXCEPT ![r][j] = rec]
        /\ journal' \in {journal, Written(r, j, rec)}
        /\ \/ worker' = [worker EXCEPT ![r][j] = w] /\ rec.promotion = None
              /\ (w.project # None => w.project \in official)
           \/ worker' = [worker EXCEPT ![r][j] = Finished]
    BY DEF CheckpointThen, CheckpointAndFinish, Record, Continue, Finish
  <1>2. \A q \in Runs, i \in Jobs : memory'[q][i] = IF q = r /\ i = j THEN rec ELSE memory[q][i]
    BY <1>1 DEF TypeOK
  <1>3. \A i \in Jobs : journal'[i] \in {journal[i], rec, memory[r][i]}
    BY <1>1 DEF TypeOK, Written
  <1>4. \A q \in Runs, i \in Jobs : TrueRecord(memory'[q][i]) /\ TrueRecord(journal'[i])
    BY <1>2, <1>3 DEF Truth
  <1>5. ASSUME NEW q \in Runs, NEW i \in Jobs, Busy(q, i)'
        PROVE  /\ runPc[q] = "running"
               /\ memory'[q][i].promotion = None
               /\ worker'[q][i].project # None => worker'[q][i].project \in official
    <2>1. CASE q = r /\ i = j
      BY <1>1, <1>2, <1>5, <2>1 DEF Busy, Finished, Idle, TypeOK
    <2>2. CASE ~(q = r /\ i = j)
      <3>1. worker'[q][i] = worker[q][i] /\ memory'[q][i] = memory[q][i]
        BY <1>1, <1>2, <2>2 DEF TypeOK
      <3> QED BY <1>5, <3>1 DEF Truth, TrueWorker, Busy
    <2> QED BY <2>1, <2>2
  <1>6. \A i \in Jobs : TrueRecord(journal[i])'
    BY <1>4 DEF TrueRecord
  <1>7. \A q \in Runs, i \in Jobs : TrueRecord(memory[q][i])'
    BY <1>4 DEF TrueRecord
  <1>8. \A q \in Runs, i \in Jobs : TrueWorker(q, i)'
    BY <1>5 DEF TrueWorker
  <1> QED BY <1>6, <1>7, <1>8 DEF Truth

(* A stage of a goroutine at work that ends well with an object of its     *)
(* kind, and of its project, keeps everything true.                        *)
LEMMA SucceedTruth ==
    ASSUME TypeOK, Truth, NEW r \in Runs, NEW j \in Jobs, NEW id \in official,
           NEW dispatch \in DispatchStates, Busy(r, j), id.kind = worker[r][j].kind,
           id.kind = "promotion" => id.parent = worker[r][j].project,
           Succeed(r, j, id, dispatch), UNCHANGED <<runPc, official>>
    PROVE  Truth'
  <1> DEFINE w == worker[r][j]
             rec == memory[r][j]
  <1>1. /\ w \in Workers /\ rec \in JournalJob /\ id \in Objects
        /\ runPc[r] = "running" /\ rec.promotion = None /\ TrueRecord(rec)
        /\ w.project # None => w.project \in official
    BY DEF TypeOK, Truth, TrueWorker
  <1>2. w.project \in Projects \cup {None} /\ w.recover \in SUBSET Kinds
    BY <1>1 DEF Workers
  <1>3. CASE w.kind = "project"
    <2> DEFINE new == Applied(rec, "project_created", id, None, dispatch)
               next == NextStep(id, w.recover)
    <2>1. id \in Projects /\ id # None
      BY <1>1, <1>3, ObjectKind
    <2>2. new \in JournalJob
      BY <1>1, <2>1, AppliedType, StatusTypes
    <2>5. next \in Workers /\ next.project = id
      BY <1>2, <2>1, NextStepType
    <2>3. TrueRecord(new) /\ new.promotion = None
      BY <1>1, <2>1 DEF TrueRecord, Applied
    <2>4. CheckpointThen(r, j, new, next)
      BY <1>3 DEF Succeed
    <2> HIDE DEF new, next
    <2> QED BY <1>1, <2>2, <2>3, <2>4, <2>5, CheckpointTruth
  <1>4. CASE w.kind = "promotion"
    <2> DEFINE new == Applied(rec, "completed", w.project, id, dispatch)
    <2>1. id \in Promotions /\ id # None /\ w.project # None
      BY <1>1, <1>4, ObjectKind DEF Workers
    <2>2. new \in JournalJob
      BY <1>1, <1>2, <2>1, AppliedType, StatusTypes
    <2>3. TrueRecord(new)
      BY <1>1, <1>4, <2>1 DEF TrueRecord, Applied
    <2>4. CheckpointAndFinish(r, j, new)
      BY <1>4 DEF Succeed
    <2> HIDE DEF new
    <2> QED BY <1>1, <2>2, <2>3, <2>4, CheckpointTruth
  <1> QED BY <1>1, <1>3, <1>4 DEF Workers, Kinds

(* A stage that ends badly, or is announced, names no new object.          *)
LEMMA SameProjectTruth ==
    ASSUME TypeOK, Truth, NEW r \in Runs, NEW j \in Jobs, NEW status \in Statuses,
           NEW dispatch \in DispatchStates, Busy(r, j)
    PROVE  LET rec == Applied(memory[r][j], status, worker[r][j].project, None, dispatch) IN
           rec \in JournalJob /\ TrueRecord(rec) /\ rec.promotion = None
  <1>1. /\ worker[r][j].project \in Projects \cup {None} /\ memory[r][j] \in JournalJob
        /\ memory[r][j].promotion = None /\ TrueRecord(memory[r][j])
        /\ worker[r][j].project # None => worker[r][j].project \in official
    BY DEF TypeOK, Workers, Truth, TrueWorker
  <1> QED BY <1>1, AppliedType DEF TrueRecord, Applied

LEMMA FailTruth ==
    ASSUME TypeOK, Truth, NEW r \in Runs, NEW j \in Jobs, NEW status \in Statuses,
           NEW dispatch \in DispatchStates, Busy(r, j), Fail(r, j, status, dispatch),
           UNCHANGED <<runPc, official>>
    PROVE  Truth'
  BY SameProjectTruth, CheckpointTruth, IdleType DEF Fail, Truth, TrueWorker

(* What the platform did, and what is neither a record nor a worker, does  *)
(* not matter to the truth of the records.                                 *)
LEMMA TruthKept ==
    ASSUME Truth, UNCHANGED <<journal, memory, worker>>, official \subseteq official',
           \A r \in Runs : runPc[r] = "running" => runPc'[r] = "running"
    PROVE  Truth'
  BY DEF Truth, TrueRecord, TrueWorker, Busy

(* A goroutine starts from a project its record names, and with nothing    *)
(* left to record twice.                                                   *)
LEMMA StartTruth ==
    ASSUME TypeOK, Truth, NEW r \in Runs, NEW j \in Jobs, StartJob(r, j)
    PROVE  Truth'
  <1> DEFINE rec == memory[r][j]
             new == [NextStep(ResumeProject(rec), Recovers(rec)) EXCEPT !.pc = "locking"]
  <1>1. rec \in JournalJob /\ TrueRecord(rec) /\ runPc[r] = "running"
    BY DEF TypeOK, Truth, StartJob, At
  <1>2. /\ UNCHANGED <<journal, memory, official, runPc>>
        /\ \/ worker' = [worker EXCEPT ![r][j] = Finished]
           \/ ~Skipped(rec) /\ worker' = [worker EXCEPT ![r][j] = new]
    BY DEF StartJob, runVars, apiVars
  <1>3. Finished.pc = "done" /\ new.project = ResumeProject(rec)
    BY DEF Finished, Idle, NextStep
  <1>4. ResumeProject(rec) # None => ResumeProject(rec) \in official
    BY <1>1 DEF ResumeProject, TrueRecord
  <1>5. ~Skipped(rec) => rec.promotion = None
    BY <1>1 DEF TrueRecord, Skipped
  <1> HIDE DEF new
  <1>6. ASSUME NEW q \in Runs, NEW i \in Jobs PROVE TrueWorker(q, i)'
    <2>1. CASE q = r /\ i = j
      <3>1. \A x : worker' = [worker EXCEPT ![r][j] = x] => worker'[r][j] = x
        BY DEF TypeOK
      <3>2. worker'[r][j] = Finished \/ (~Skipped(rec) /\ worker'[r][j] = new)
        BY <1>2, <3>1
      <3> QED BY <1>1, <1>2, <1>3, <1>4, <1>5, <2>1, <3>2 DEF TrueWorker, Busy
    <2>2. CASE ~(q = r /\ i = j)
      <3>1. worker'[q][i] = worker[q][i]
        BY <1>2, <2>2 DEF TypeOK
      <3> QED BY <1>2, <3>1 DEF Truth, TrueWorker, Busy
    <2> QED BY <2>1, <2>2
  <1> QED BY <1>2, <1>6 DEF Truth, TrueRecord

LEMMA WorkerStepTruth ==
    ASSUME TypeOK, Truth, NEW r \in Runs, NEW j \in Jobs, WorkerStep(r, j)
    PROVE  Truth'
  <1> DEFINE w == worker[r][j]
  <1>w. w \in Workers /\ w.kind \in Kinds
    BY DEF TypeOK, Workers
  <1>1. CASE StartJob(r, j)
    BY <1>1, StartTruth
  <1>2. CASE AcquireLock(r, j)
    <2>1. NextStep(w.project, w.recover).project = w.project
      BY DEF NextStep
    <2>2. \A q \in Runs, i \in Jobs : TrueWorker(q, i)'
      BY <1>2, <2>1 DEF AcquireLock, At, TypeOK, Truth, TrueWorker, Busy, runVars, apiVars
    <2> QED BY <1>2, <2>2 DEF AcquireLock, Truth, TrueRecord, runVars, apiVars
  <1>3. CASE GiveUp(r, j)
    <2>1. \A q \in Runs, i \in Jobs : TrueWorker(q, i)'
      BY <1>3 DEF GiveUp, Finished, Idle, TypeOK, Truth, TrueWorker, Busy, runVars, apiVars
    <2> QED BY <1>3, <2>1 DEF GiveUp, Truth, TrueRecord, runVars, apiVars
  <1>4. CASE Recover(r, j) \/ Resolve(r, j)
    <2> DEFINE found == Candidates(w.kind, j, w.project)
    <2>1. Busy(r, j) /\ UNCHANGED <<runPc, official>>
      BY <1>4 DEF Recover, Resolve, At, Busy, runVars, apiVars
    <2>2. \E dispatch \in DispatchStates :
             \/ \E s \in Statuses : Fail(r, j, s, dispatch)
             \/ \E id \in found : Succeed(r, j, id, dispatch)
      BY <1>4, <1>w, StatusTypes DEF Recover, Resolve
    <2>3. CASE \E dispatch \in DispatchStates, s \in Statuses : Fail(r, j, s, dispatch)
      BY <2>1, <2>3, FailTruth
    <2>4. CASE \E dispatch \in DispatchStates, id \in found : Succeed(r, j, id, dispatch)
      BY <2>1, <2>4, CandidatesType, SucceedTruth
    <2> QED BY <2>2, <2>3, <2>4
  <1>5. CASE Announce(r, j)
    <2> DEFINE rec == Applied(memory[r][j], Dispatching[w.kind], w.project, None, "none")
               new == [w EXCEPT !.pc = "send"]
    <2>1. Busy(r, j) /\ UNCHANGED <<runPc, official>> /\ CheckpointThen(r, j, rec, new)
      BY <1>5 DEF Announce, At, Busy, runVars, apiVars
    <2>2. rec \in JournalJob /\ TrueRecord(rec) /\ rec.promotion = None
      BY <1>w, <2>1, SameProjectTruth, StatusTypes
    <2>3. new \in Workers /\ new.project = w.project
      BY <1>w DEF Workers, WorkerPcs
    <2>4. runPc[r] = "running" /\ (w.project # None => w.project \in official)
      BY <2>1 DEF Truth, TrueWorker
    <2> HIDE DEF rec, new
    <2> QED BY <2>1, <2>2, <2>3, <2>4, CheckpointTruth
  <1>6. CASE Send(r, j) \/ Unknown(r, j)
    <2>1. PICK pc \in {"wait", "resolve"} : worker' = [worker EXCEPT ![r][j] = [w EXCEPT !.pc = pc]]
      BY <1>6 DEF Send, Unknown, Continue
    <2>2. UNCHANGED <<journal, memory, official, runPc>> /\ Busy(r, j)
      BY <1>6 DEF Send, Unknown, At, Busy, runVars, apiVars
    <2>3. \A q \in Runs, i \in Jobs : TrueWorker(q, i)'
      BY <1>w, <2>1, <2>2 DEF TypeOK, Workers, Truth, TrueWorker, Busy
    <2> QED BY <2>2, <2>3 DEF Truth, TrueRecord
  <1>7. CASE NotSent(r, j) \/ ErrorResponse(r, j)
    <2>1. Busy(r, j) /\ UNCHANGED <<runPc, official>>
      BY <1>7 DEF NotSent, ErrorResponse, At, Busy, runVars, apiVars
    <2> QED BY <1>7, <1>w, <2>1, FailTruth, StatusTypes DEF NotSent, ErrorResponse
  <1>8. CASE Acknowledge(r, j)
    <2> DEFINE id == Requested(w.kind, j, r, w.project)
    <2>1. Busy(r, j) /\ UNCHANGED <<runPc, official>> /\ id \in official
          /\ Succeed(r, j, id, "acknowledged")
      BY <1>8 DEF Acknowledge, At, Busy, runVars, apiVars
    <2>2. id.kind = w.kind /\ id.parent = w.project
      BY DEF Requested
    <2> HIDE DEF id
    <2> QED BY <2>1, <2>2, SucceedTruth, StatusTypes
  <1> QED
    BY <1>1, <1>2, <1>3, <1>4, <1>5, <1>6, <1>7, <1>8 DEF WorkerStep

(* Records and goroutines stay true in every behaviour.                    *)
LEMMA TruthHolds == Spec => []Truth
  <1>1. ASSUME Init PROVE Truth
    <2>1. \A j \in Jobs : NewJournal[j] = Pending
      BY DEF NewJournal
    <2>2. /\ \A j \in Jobs : journal[j] = Pending
          /\ \A r \in Runs, j \in Jobs : memory[r][j] = Pending /\ worker[r][j] = Idle
      BY <1>1, <2>1 DEF Init
    <2>3. TrueRecord(Pending)
      BY DEF TrueRecord, Pending
    <2>4. \A j \in Jobs : TrueRecord(journal[j])
      BY <2>2, <2>3 DEF TrueRecord
    <2>5. \A r \in Runs, j \in Jobs : TrueRecord(memory[r][j]) /\ TrueWorker(r, j)
      BY <2>2, <2>3 DEF TrueRecord, TrueWorker, Busy, Idle
    <2> QED BY <2>4, <2>5 DEF Truth
  <1>2. TypeOK /\ Truth /\ [Next]_vars => Truth'
    <2> SUFFICES ASSUME TypeOK, Truth, [Next]_vars PROVE Truth'
      OBVIOUS
    <2>1. ASSUME NEW r \in Runs, Begin(r) PROVE Truth'
      BY <2>1, TruthKept DEF Begin, apiVars, TypeOK
    <2>2. ASSUME NEW r \in Runs, LoadJournal(r) PROVE Truth'
      <3>1. \A q \in Runs, i \in Jobs : Busy(q, i)' => Busy(q, i) /\ q # r
        BY <2>2 DEF LoadJournal, Busy, Truth, TrueWorker
      <3>2. \A q \in Runs, i \in Jobs : memory'[q][i] = IF q = r THEN journal[i] ELSE memory[q][i]
        BY <2>2 DEF LoadJournal, TypeOK
      <3>3. \A q \in Runs : q # r => runPc'[q] = runPc[q]
        BY <2>2 DEF LoadJournal, TypeOK
      <3>4. \A q \in Runs, i \in Jobs : TrueRecord(memory[q][i])'
        BY <2>2, <3>2 DEF LoadJournal, Truth, TrueRecord, apiVars
      <3>5. \A q \in Runs, i \in Jobs : TrueWorker(q, i)'
        BY <2>2, <3>1, <3>2, <3>3 DEF LoadJournal, Truth, TrueWorker, apiVars
      <3>6. \A i \in Jobs : TrueRecord(journal[i])'
        BY <2>2 DEF LoadJournal, Truth, TrueRecord, apiVars
      <3> QED BY <3>4, <3>5, <3>6 DEF Truth
    <2>3. ASSUME NEW r \in Runs, CreateJournal(r) PROVE Truth'
      BY <2>3 DEF CreateJournal, Truth, TrueRecord, TrueWorker, Busy, TypeOK, apiVars
    <2>4. ASSUME NEW r \in Runs, NEW pc, Leave(r, pc) PROVE Truth'
      <3>1. \A q \in Runs, i \in Jobs : Busy(q, i)' => Busy(q, i) /\ q # r
        BY <2>4 DEF Leave, Busy, Finished, Idle, TypeOK
      <3>2. \A q \in Runs, i \in Jobs : memory'[q][i] = IF q = r THEN Pending ELSE memory[q][i]
        BY <2>4 DEF Leave, TypeOK, NewJournal
      <3>3. \A q \in Runs, i \in Jobs : q # r => runPc'[q] = runPc[q] /\ worker'[q][i] = worker[q][i]
        BY <2>4 DEF Leave, TypeOK
      <3>4. \A q \in Runs, i \in Jobs : TrueRecord(memory[q][i])'
        BY <2>4, <3>2 DEF Leave, Truth, TrueRecord, Pending, apiVars
      <3>5. \A q \in Runs, i \in Jobs : TrueWorker(q, i)'
        BY <2>4, <3>1, <3>2, <3>3 DEF Leave, Truth, TrueWorker, apiVars
      <3>6. \A i \in Jobs : TrueRecord(journal[i])'
        BY <2>4 DEF Leave, Truth, TrueRecord, apiVars
      <3> QED BY <3>4, <3>5, <3>6 DEF Truth
    <2>5. ASSUME NEW r \in Runs, NEW j \in Jobs, WorkerStep(r, j) PROVE Truth'
      BY <2>5, WorkerStepTruth
    <2>6. ASSUME NEW o \in inflight, Land(o) \/ Drop(o) PROVE Truth'
      BY <2>6, TruthKept DEF Land, Drop, runVars
    <2>7. CASE UNCHANGED vars
      BY <2>7, TruthKept DEF vars
    <2> QED
      BY <2>1, <2>2, <2>3, <2>4, <2>5, <2>6, <2>7 DEF Next, RunStep, EndRun, Crash
  <1> QED BY <1>1, <1>2, TypeCorrect, PTL DEF Spec

(* JournalIsTrue: whatever runs crash, overlap or lose a save, the journal *)
(* names no project or promotion the platform does not have, and records a *)
(* promotion under its own project (executor.go, batch.go applyCheckpoint). *)
THEOREM JournalTruth == Spec => []JournalIsTrue
  <1>1. Truth => JournalIsTrue
    BY DEF Truth, TrueRecord, JournalIsTrue
  <1> QED BY <1>1, TruthHolds, PTL

-----------------------------------------------------------------------------
(* Nothing is created twice                                                *)

(* No object of the key that a verdict did not forget.                     *)
Fresh(k, j) == ObjectsOf(k, j) = {} \/ Forgotten(k, j, Reasons)

(* A record a run may act on: it does not send the key to be created again. *)
Accounted(k, j, rec) == Fresh(k, j) \/ Remembered(k, rec)

(* With the scope lock one run at a time is at the journal.                *)
OneRun == \A r \in Runs : runPc[r] \in Active => scope = r

(* A run's copy of a record is the one on disk until a save of it fails,   *)
(* which ends the job.                                                     *)
InStep(r, j) ==
    runPc[r] = "creating" \/ (runPc[r] = "running" /\ worker[r][j].pc # "done") =>
        memory[r][j] = journal[j]

(* What a goroutine at work knows of the objects it is about to ask for:   *)
(* there is none before the request, and after it the record says so.      *)
Prudent(j, w, rec) ==
    w.pc \notin {"todo", "done"} =>
        /\ w.kind = "project" => Fresh("promotion", j) /\ "promotion" \notin w.recover
        /\ w.pc \in {"announce", "send"} => Fresh(w.kind, j)
        /\ w.pc = "locking" /\ w.kind \notin w.recover => Fresh(w.kind, j)
        /\ w.pc \in {"send", "wait", "resolve"} =>
              rec.status = Dispatching[w.kind] /\ (w.kind = "promotion" => rec.project # None)

AllAccounted ==
    \A k \in Kinds, j \in Jobs :
        /\ Accounted(k, j, journal[j])
        /\ \A r \in Runs : runPc[r] = "running" => Accounted(k, j, memory[r][j])
AllPrudent == \A r \in Runs, j \in Jobs : InStep(r, j) /\ Prudent(j, worker[r][j], memory[r][j])

(* The inductive invariant.                                                *)
Guarded == NoDuplicateObjects /\ OneRun /\ AllAccounted /\ AllPrudent

(* Verdicts are never taken back, and platform events create nothing new.  *)
LEMMA FreshKept ==
    ASSUME NEW k, NEW j, ObjectsOf(k, j)' \subseteq ObjectsOf(k, j), forgotten \subseteq forgotten', Fresh(k, j)
    PROVE  Fresh(k, j)'
  BY DEF Fresh, Forgotten

LEMMA NoDuplicateKept ==
    ASSUME NoDuplicateObjects, forgotten \subseteq forgotten',
           \A k \in Kinds, j \in Jobs : ObjectsOf(k, j)' \subseteq ObjectsOf(k, j)
    PROVE  NoDuplicateObjects'
  <1> SUFFICES ASSUME NEW k \in Kinds, NEW j \in Jobs, ~Forgotten(k, j, Reasons)',
                      NEW a \in ObjectsOf(k, j)', NEW b \in ObjectsOf(k, j)'
               PROVE  a = b
    BY DEF NoDuplicateObjects, AtMostOneUnless
  <1>1. ~Forgotten(k, j, Reasons)
    BY DEF Forgotten
  <1> QED BY <1>1 DEF NoDuplicateObjects, AtMostOneUnless

(* The records that keep an object of a kind from being created again.     *)
LEMMA RememberedBy ==
    ASSUME NEW rec \in JournalJob
    PROVE  /\ rec.status = Dispatching["project"] => Remembered("project", rec)
           /\ rec.status = FailedStatus["project"] /\ rec.dispatch = "unknown" => Remembered("project", rec)
           /\ rec.project # None /\ rec.status \in {"project_created", Dispatching["promotion"], FailedStatus["promotion"]}
                => Remembered("project", rec)
           /\ rec.project # None /\ rec.status = Dispatching["promotion"] => Remembered("promotion", rec)
           /\ rec.project # None /\ rec.status = FailedStatus["promotion"] /\ rec.dispatch = "unknown"
                => Remembered("promotion", rec)
           /\ rec.status = "ambiguous" => \A k \in Kinds : Remembered(k, rec)
           /\ rec.status = "completed" /\ rec.promotion # None => \A k \in Kinds : Remembered(k, rec)
  BY DEF Remembered, Recovers, Resumes, Skipped, BlockedAmbiguous, Dispatching, FailedStatus, Kinds

(* A record that is accounted for, and what starting from it makes sure of. *)
LEMMA StartsPrudently ==
    ASSUME NEW rec \in JournalJob, NEW j \in Jobs, \A k \in Kinds : Accounted(k, j, rec),
           ~Skipped(rec), ~BlockedAmbiguous(rec)
    PROVE  Prudent(j, [NextStep(ResumeProject(rec), Recovers(rec)) EXCEPT !.pc = "locking"], rec)
  <1> DEFINE w == [NextStep(ResumeProject(rec), Recovers(rec)) EXCEPT !.pc = "locking"]
  <1>1. /\ w.pc = "locking" /\ w.recover = Recovers(rec)
        /\ w.kind = IF ResumeProject(rec) = None THEN "project" ELSE "promotion"
    BY DEF NextStep
  <1>2. "promotion" \in Recovers(rec) => Resumes(rec) /\ ResumeProject(rec) # None
    BY DEF Recovers, Resumes, ResumeProject
  <1>3. ResumeProject(rec) = None => ~Resumes(rec)
    BY DEF ResumeProject, Resumes
  <1>4. Fresh("promotion", j) \/ "promotion" \in Recovers(rec)
    BY DEF Accounted, Remembered, Kinds
  <1>5. ~Resumes(rec) => Fresh("project", j) \/ "project" \in Recovers(rec)
    BY DEF Accounted, Remembered, Kinds
  <1> HIDE DEF w
  <1>6. Prudent(j, w, rec)
    BY <1>1, <1>2, <1>3, <1>4, <1>5 DEF Prudent
  <1> QED BY <1>6 DEF w

(* While a run is at the journal no other run has goroutines at work.      *)
LEMMA OthersAreIdle ==
    ASSUME ScopeLocked, Truth, OneRun, NEW r \in Runs, runPc[r] \in Active, NEW q \in Runs, q # r
    PROVE  runPc[q] \notin Active /\ \A i \in Jobs : ~Busy(q, i)
  <1>1. runPc[q] \notin Active
    BY DEF OneRun
  <1> QED BY <1>1 DEF Truth, TrueWorker, Active

(* A checkpoint of a record that accounts for the job's objects keeps the  *)
(* journal safe to resume from, saved or not.                              *)
LEMMA CheckpointGuarded ==
    ASSUME ScopeLocked, TypeOK, Truth, Guarded, NEW r \in Runs, NEW j \in Jobs, Busy(r, j),
           NEW rec \in JournalJob, NEW w \in Workers,
           UNCHANGED <<runPc, scope, official, inflight>>, forgotten \subseteq forgotten',
           \A k \in Kinds : Fresh(k, j)' \/ Remembered(k, rec),
           \/ CheckpointThen(r, j, rec, w) /\ w.pc # "done" /\ Prudent(j, w, rec)'
           \/ CheckpointAndFinish(r, j, rec)
    PROVE  Guarded'
  <1>1. /\ memory' = [memory EXCEPT ![r][j] = rec]
        /\ journal' \in {journal, Written(r, j, rec)}
        /\ \/ /\ worker' = [worker EXCEPT ![r][j] = w] /\ journal' = Written(r, j, rec)
              /\ w.pc # "done" /\ Prudent(j, w, rec)'
           \/ worker' = [worker EXCEPT ![r][j] = Finished]
    BY DEF CheckpointThen, CheckpointAndFinish, Record, Continue, Finish
  <1>2. runPc[r] = "running" /\ runPc[r] \in Active
    BY DEF Truth, TrueWorker, Active
  <1>3. \A q \in Runs, i \in Jobs : memory'[q][i] = IF q = r /\ i = j THEN rec ELSE memory[q][i]
    BY <1>1 DEF TypeOK
  <1>4. \A i \in Jobs : journal'[i] = journal[i] \/ journal'[i] = IF i = j THEN rec ELSE memory[r][i]
    BY <1>1 DEF TypeOK, Written
  <1>5. \A q \in Runs, i \in Jobs : ~(q = r /\ i = j) => worker'[q][i] = worker[q][i]
    BY <1>1 DEF TypeOK
  <1>6. \A k \in Kinds, i \in Jobs : ObjectsOf(k, i)' = ObjectsOf(k, i)
    BY DEF ObjectsOf
  <1>7. \A q \in Runs, i \in Jobs : worker[q][i].kind \in Kinds
    BY DEF TypeOK, Workers
  <1>8. \A q \in Runs : q # r => runPc[q] \notin Active /\ \A i \in Jobs : ~Busy(q, i)
    BY <1>2, OthersAreIdle DEF Guarded
  <1>9. AllAccounted'
    <2> SUFFICES ASSUME NEW k \in Kinds, NEW i \in Jobs
                 PROVE  /\ Accounted(k, i, journal[i])'
                        /\ \A q \in Runs : runPc'[q] = "running" => Accounted(k, i, memory[q][i])'
      BY DEF AllAccounted
    <2>1. /\ Fresh(k, i)' \/ Remembered(k, journal[i])
          /\ Fresh(k, i)' \/ Remembered(k, memory[r][i])
      BY <1>2, <1>6, FreshKept DEF Guarded, AllAccounted, Accounted
    <2>2. i = j => Fresh(k, i)' \/ Remembered(k, rec)
      OBVIOUS
    <2>3. Fresh(k, i)' \/ Remembered(k, journal'[i])
      BY <1>4, <2>1, <2>2
    <2>4. ASSUME NEW q \in Runs, runPc'[q] = "running" PROVE Fresh(k, i)' \/ Remembered(k, memory'[q][i])
      <3>1. q = r
        BY <1>8, <2>4 DEF Active
      <3> QED BY <1>3, <2>1, <2>2, <3>1
    <2> QED BY <2>3, <2>4 DEF Accounted, Remembered
  <1>10. ASSUME NEW q \in Runs, NEW i \in Jobs
         PROVE  InStep(q, i)' /\ Prudent(i, worker[q][i], memory[q][i])'
    <2>1. CASE q # r
      <3>1. ~Busy(q, i) /\ worker'[q][i] = worker[q][i] /\ runPc[q] \notin Active
        BY <1>5, <1>8, <2>1
      <3> QED BY <3>1 DEF InStep, Prudent, Busy, Active
    <2>2. CASE q = r /\ i # j
      <3>1. worker'[q][i] = worker[q][i] /\ memory'[q][i] = memory[q][i]
        BY <1>3, <1>5, <2>2
      <3>2. worker[q][i].pc # "done" => memory[q][i] = journal[i] /\ journal'[i] = journal[i]
        BY <1>2, <1>4, <2>2 DEF Guarded, AllPrudent, InStep
      <3>3. InStep(q, i)'
        BY <1>2, <2>2, <3>1, <3>2 DEF InStep
      <3>4. Prudent(i, worker[q][i], memory[q][i])
        BY DEF Guarded, AllPrudent
      <3>5. \A k \in Kinds : Fresh(k, i) => Fresh(k, i)'
        BY <1>6, FreshKept
      <3>6. "promotion" \in Kinds /\ worker[q][i].kind \in Kinds
        BY <1>7 DEF Kinds
      <3>7. Prudent(i, worker[q][i], memory[q][i])'
        BY <3>1, <3>4, <3>5, <3>6 DEF Prudent
      <3> QED BY <3>3, <3>7
    <2>3. CASE q = r /\ i = j
      <3>1. memory'[r][j] = rec
        BY <1>3
      <3>2. CASE worker' = [worker EXCEPT ![r][j] = Finished]
        <4>1. worker'[r][j].pc = "done"
          BY <3>2 DEF TypeOK, Finished, Idle
        <4> QED BY <1>2, <2>3, <4>1 DEF InStep, Prudent
      <3>3. CASE worker' = [worker EXCEPT ![r][j] = w] /\ journal' = Written(r, j, rec) /\ Prudent(j, w, rec)'
        <4>1. worker'[r][j] = w /\ journal'[j] = rec
          BY <3>3 DEF TypeOK, Written
        <4> QED BY <2>3, <3>1, <3>3, <4>1 DEF InStep, Prudent
      <3> QED BY <1>1, <3>2, <3>3
    <2> QED BY <2>1, <2>2, <2>3
  <1>11. NoDuplicateObjects'
    BY <1>6, NoDuplicateKept DEF Guarded
  <1>12. OneRun'
    BY DEF Guarded, OneRun
  <1> QED BY <1>9, <1>10, <1>11, <1>12 DEF Guarded, AllPrudent

(* A verdict that may be wrong is written down.                            *)
LEMMA ForgetFrees ==
    ASSUME NEW k \in Kinds, NEW j \in Jobs, NEW reason \in Reasons, Forget(reason, k, j),
           UNCHANGED <<official, inflight>>
    PROVE  Fresh(k, j)' /\ forgotten \subseteq forgotten'
  <1>1. ObjectsOf(k, j)' = ObjectsOf(k, j)
    BY DEF ObjectsOf
  <1> QED BY <1>1 DEF Forget, Fresh, Forgotten

(* A stage that ends badly leaves no way to a second object, because there *)
(* is none, its verdict is on record, or the next run looks first.         *)
LEMMA FailGuarded ==
    ASSUME ScopeLocked, TypeOK, Truth, Guarded, NEW r \in Runs, NEW j \in Jobs, Busy(r, j),
           NEW k \in Kinds, k = worker[r][j].kind,
           NEW status \in {FailedStatus[k], "ambiguous"}, NEW dispatch \in DispatchStates,
           Fail(r, j, status, dispatch),
           status = "ambiguous" \/ dispatch = "unknown" \/ Fresh(k, j)',
           UNCHANGED <<runPc, scope, official, inflight>>, forgotten \subseteq forgotten'
    PROVE  Guarded'
  <1> DEFINE rec == Applied(memory[r][j], status, worker[r][j].project, None, dispatch)
  <1>1. /\ worker[r][j] \in Workers /\ memory[r][j] \in JournalJob
        /\ k = "promotion" => worker[r][j].project # None
    BY DEF TypeOK, Workers
  <1>2. rec \in JournalJob /\ rec.status = status /\ rec.dispatch = dispatch
        /\ (k = "promotion" => rec.project # None)
    <2>1. worker[r][j].project \in Projects \cup {None} /\ status \in Statuses
      BY <1>1, StatusTypes DEF Workers
    <2>2. rec \in JournalJob
      BY <1>1, <2>1, AppliedType
    <2> QED BY <1>1, <2>2 DEF Applied
  <1>3. CheckpointAndFinish(r, j, rec)
    BY DEF Fail
  <1> HIDE DEF rec
  <1>4. Prudent(j, worker[r][j], memory[r][j])
    BY DEF Guarded, AllPrudent
  <1>5. k = "project" => Fresh("promotion", j)'
    <2>1. ObjectsOf("promotion", j)' \subseteq ObjectsOf("promotion", j)
      BY DEF ObjectsOf
    <2>2. k = "project" => Fresh("promotion", j)
      BY <1>4 DEF Prudent, Busy
    <2> QED BY <2>1, <2>2, FreshKept
  <1>6. ASSUME NEW l \in Kinds PROVE Fresh(l, j)' \/ Remembered(l, rec)
    <2>1. CASE status = "ambiguous"
      BY <1>2, <2>1, RememberedBy
    <2>2. CASE k = "project" /\ status # "ambiguous"
      BY <1>2, <1>5, <2>2, RememberedBy DEF Kinds
    <2>3. CASE k = "promotion" /\ status # "ambiguous"
      BY <1>2, <2>3, RememberedBy DEF Kinds
    <2> QED BY <2>1, <2>2, <2>3 DEF Kinds
  <1> QED BY <1>2, <1>3, <1>6, IdleType, CheckpointGuarded

(* A stage that ends well records its object, and a project leads to the   *)
(* promotion, of which there is none yet.                                  *)
LEMMA SucceedGuarded ==
    ASSUME ScopeLocked, TypeOK, Truth, Guarded, NEW r \in Runs, NEW j \in Jobs, Busy(r, j),
           NEW id \in Objects, NEW dispatch \in DispatchStates, id.kind = worker[r][j].kind,
           Succeed(r, j, id, dispatch), UNCHANGED <<runPc, scope, official, inflight, forgotten>>
    PROVE  Guarded'
  <1> DEFINE w == worker[r][j]
  <1>1. w \in Workers /\ memory[r][j] \in JournalJob /\ w.project \in Projects \cup {None}
        /\ w.recover \in SUBSET Kinds /\ Prudent(j, w, memory[r][j])
    BY DEF TypeOK, Workers, Guarded, AllPrudent
  <1>2. ASSUME Fresh("promotion", j) PROVE Fresh("promotion", j)'
    <2>1. ObjectsOf("promotion", j)' \subseteq ObjectsOf("promotion", j)
      BY DEF ObjectsOf
    <2> QED BY <1>2, <2>1, FreshKept
  <1>3. CASE w.kind = "project"
    <2> DEFINE rec == Applied(memory[r][j], "project_created", id, None, dispatch)
               next == NextStep(id, w.recover)
    <2>1. id \in Projects /\ id # None
      BY <1>3, ObjectKind
    <2>2. Fresh("promotion", j) /\ "promotion" \notin w.recover
      BY <1>1, <1>3 DEF Prudent, Busy
    <2>3. rec \in JournalJob /\ rec.status = "project_created" /\ rec.project # None
      <3>1. rec \in JournalJob
        BY <1>1, <2>1, AppliedType, StatusTypes
      <3> QED BY <2>1, <3>1 DEF Applied
    <2>4. next \in Workers /\ next.pc = "announce" /\ next.kind = "promotion"
      <3>1. next \in Workers
        BY <1>1, <2>1, NextStepType
      <3> QED BY <2>1, <2>2, <3>1 DEF NextStep
    <2>5. CheckpointThen(r, j, rec, next)
      BY <1>3 DEF Succeed
    <2> HIDE DEF rec, next
    <2>6. \A k \in Kinds : Fresh(k, j)' \/ Remembered(k, rec)
      BY <1>2, <2>2, <2>3, RememberedBy DEF Kinds
    <2>7. next.pc # "done" /\ ("promotion" = next.kind => Fresh("promotion", j)')
      BY <1>2, <2>2, <2>4
    <2>8. ASSUME NEW x \in Workers, NEW y, x.pc = "announce", x.kind = "promotion" PROVE Prudent(j, x, y)'
      BY <1>2, <2>2, <2>8 DEF Prudent
    <2> QED BY <2>3, <2>4, <2>5, <2>6, <2>7, <2>8, CheckpointGuarded
  <1>4. CASE w.kind = "promotion"
    <2> DEFINE rec == Applied(memory[r][j], "completed", w.project, id, dispatch)
    <2>1. id \in Promotions /\ id # None
      BY <1>4, ObjectKind
    <2>2. rec \in JournalJob /\ rec.status = "completed" /\ rec.promotion # None
      <3>1. rec \in JournalJob
        BY <1>1, <2>1, AppliedType, StatusTypes
      <3> QED BY <2>1, <3>1 DEF Applied
    <2>3. CheckpointAndFinish(r, j, rec)
      BY <1>4 DEF Succeed
    <2> HIDE DEF rec
    <2>4. \A k \in Kinds : Fresh(k, j)' \/ Remembered(k, rec)
      BY <2>2, RememberedBy
    <2> QED BY <1>1, <2>2, <2>3, <2>4, CheckpointGuarded
  <1> QED BY <1>1, <1>3, <1>4 DEF Workers, Kinds

(* A goroutine that moves on prudently, without touching the journal.      *)
LEMMA MoveGuarded ==
    ASSUME TypeOK, Guarded, NEW r \in Runs, NEW j \in Jobs, NEW w \in Workers,
           UNCHANGED <<runPc, scope, journal, memory, official, inflight, forgotten>>,
           worker' = [worker EXCEPT ![r][j] = w], Prudent(j, w, memory[r][j]),
           worker[r][j].pc # "done"
    PROVE  Guarded'
  <1>1. \A q \in Runs, i \in Jobs : worker'[q][i] = IF q = r /\ i = j THEN w ELSE worker[q][i]
    BY DEF TypeOK
  <1>2. \A k, i : /\ ObjectsOf(k, i)' = ObjectsOf(k, i)
                  /\ Fresh(k, i)' = Fresh(k, i)
    BY DEF ObjectsOf, Fresh, Forgotten
  <1>3. NoDuplicateObjects' /\ OneRun' /\ AllAccounted'
    BY <1>2 DEF Guarded, NoDuplicateObjects, AtMostOneUnless, Forgotten, OneRun, AllAccounted, Accounted, Remembered
  <1>4. ASSUME NEW q \in Runs, NEW i \in Jobs
        PROVE  InStep(q, i)' /\ Prudent(i, worker[q][i], memory[q][i])'
    <2>1. InStep(q, i) /\ Prudent(i, worker[q][i], memory[q][i])
      BY DEF Guarded, AllPrudent
    <2>2. InStep(q, i)'
      BY <1>1, <2>1 DEF InStep
    <2>3. Prudent(i, worker[q][i], memory[q][i])'
      BY <1>1, <1>2, <2>1 DEF Prudent
    <2> QED BY <2>2, <2>3
  <1> QED BY <1>3, <1>4 DEF Guarded, AllPrudent

(* A request goes out only for a key without objects, and the journal says *)
(* so already.                                                             *)
LEMMA SendGuarded ==
    ASSUME ScopeLocked, TypeOK, Truth, Guarded, NEW r \in Runs, NEW j \in Jobs, Send(r, j)
    PROVE  Guarded'
  <1> DEFINE w == worker[r][j]
             new == [w EXCEPT !.pc = "wait"]
             o == Requested(w.kind, j, r, w.project)
  <1>1. /\ w \in Workers /\ w.kind \in Kinds /\ memory[r][j] \in JournalJob
        /\ w.pc = "send" /\ Busy(r, j) /\ runPc[r] = "running" /\ runPc[r] \in Active
    BY DEF TypeOK, Workers, Send, At, Busy, Active
  <1>2. /\ UNCHANGED <<runPc, scope, journal, memory, official, forgotten>>
        /\ inflight' = inflight \cup {o} /\ worker' = [worker EXCEPT ![r][j] = new]
    BY DEF Send, Continue, runVars
  <1>3. new \in Workers /\ new.pc = "wait" /\ new.kind = w.kind /\ new.recover = w.recover
    BY <1>1 DEF Workers, WorkerPcs
  <1>4. o.kind = w.kind /\ o.job = j
    BY DEF Requested
  <1> HIDE DEF new, o
  <1>5. /\ Fresh(w.kind, j) /\ memory[r][j].status = Dispatching[w.kind]
        /\ w.kind = "promotion" => memory[r][j].project # None
        /\ w.kind = "project" => Fresh("promotion", j) /\ "promotion" \notin w.recover
    BY <1>1 DEF Guarded, AllPrudent, Prudent
  <1>6. Remembered(w.kind, memory[r][j]) /\ journal[j] = memory[r][j]
    BY <1>1, <1>5, RememberedBy DEF Kinds, Guarded, AllPrudent, InStep
  <1>7. \A q \in Runs, i \in Jobs : worker'[q][i] = IF q = r /\ i = j THEN new ELSE worker[q][i]
    BY <1>2 DEF TypeOK
  <1>8. ASSUME NEW k, NEW i PROVE ObjectsOf(k, i)' \subseteq ObjectsOf(k, i) \cup {o}
    BY <1>2 DEF ObjectsOf
  <1>9. ASSUME NEW k, NEW i, k # w.kind \/ i # j
        PROVE  /\ ObjectsOf(k, i)' \subseteq ObjectsOf(k, i)
               /\ Fresh(k, i) => Fresh(k, i)'
    <2>1. ObjectsOf(k, i)' \subseteq ObjectsOf(k, i)
      BY <1>2, <1>4, <1>9 DEF ObjectsOf
    <2> QED BY <1>2, <2>1, FreshKept
  <1>10. NoDuplicateObjects'
    <2> SUFFICES ASSUME NEW k \in Kinds, NEW i \in Jobs, ~Forgotten(k, i, Reasons)',
                        NEW a \in ObjectsOf(k, i)', NEW b \in ObjectsOf(k, i)'
                 PROVE  a = b
      BY DEF NoDuplicateObjects, AtMostOneUnless
    <2>1. ~Forgotten(k, i, Reasons)
      BY <1>2 DEF Forgotten
    <2>2. CASE k # w.kind \/ i # j
      <3>1. a \in ObjectsOf(k, i) /\ b \in ObjectsOf(k, i)
        BY <1>9, <2>2
      <3> QED BY <2>1, <3>1 DEF Guarded, NoDuplicateObjects, AtMostOneUnless
    <2>3. CASE k = w.kind /\ i = j
      <3>1. ObjectsOf(k, i) = {}
        BY <1>5, <2>1, <2>3 DEF Fresh
      <3> QED BY <1>8, <3>1
    <2> QED BY <2>2, <2>3
  <1>11. OneRun'
    BY <1>2 DEF Guarded, OneRun
  <1>12. AllAccounted'
    <2> SUFFICES ASSUME NEW k \in Kinds, NEW i \in Jobs
                 PROVE  /\ Accounted(k, i, journal[i])'
                        /\ \A q \in Runs : runPc'[q] = "running" => Accounted(k, i, memory[q][i])'
      BY DEF AllAccounted
    <2>1. /\ Accounted(k, i, journal[i])
          /\ \A q \in Runs : runPc[q] = "running" => Accounted(k, i, memory[q][i])
      BY DEF Guarded, AllAccounted
    <2>2. CASE k # w.kind \/ i # j
      BY <1>2, <1>9, <2>1, <2>2 DEF Accounted, Remembered
    <2>3. CASE k = w.kind /\ i = j
      <3>1. \A q \in Runs : runPc[q] = "running" => q = r
        BY <1>1, OthersAreIdle DEF Guarded, Active
      <3> QED BY <1>2, <1>6, <2>3, <3>1 DEF Accounted, Remembered
    <2> QED BY <2>2, <2>3
  <1>13. ASSUME NEW q \in Runs, NEW i \in Jobs
         PROVE  InStep(q, i)' /\ Prudent(i, worker[q][i], memory[q][i])'
    <2>1. InStep(q, i) /\ Prudent(i, worker[q][i], memory[q][i])
      BY DEF Guarded, AllPrudent
    <2>2. InStep(q, i)'
      BY <1>1, <1>2, <1>3, <1>7, <2>1 DEF InStep
    <2>3. CASE q = r /\ i = j
      <3>1. w.kind = "project" => Fresh("promotion", j)'
        BY <1>5, <1>9
      <3>2. worker'[r][j] = new /\ memory'[r][j] = memory[r][j]
        BY <1>2, <1>7
      <3>3. Prudent(j, worker[r][j], memory[r][j])'
        BY <1>3, <1>5, <3>1, <3>2 DEF Prudent
      <3> QED BY <2>2, <2>3, <3>3
    <2>4. CASE q # r
      <3>1. ~Busy(q, i) /\ worker'[q][i] = worker[q][i]
        BY <1>1, <1>7, <2>4, OthersAreIdle DEF Guarded
      <3> QED BY <2>2, <3>1 DEF Prudent, Busy
    <2>5. CASE q = r /\ i # j
      <3>1. worker'[q][i] = worker[q][i] /\ memory'[q][i] = memory[q][i]
        BY <1>2, <1>7, <2>5
      <3>2. \A k : Fresh(k, i) => Fresh(k, i)'
        BY <1>9, <2>5
      <3>3. Prudent(i, worker[q][i], memory[q][i])'
        BY <2>1, <3>1, <3>2 DEF Prudent
      <3> QED BY <2>2, <3>3
    <2> QED BY <2>3, <2>4, <2>5
  <1> QED BY <1>10, <1>11, <1>12, <1>13 DEF Guarded, AllPrudent

(* Every step of a goroutine, whatever it is answered, keeps this.         *)
LEMMA WorkerStepGuarded ==
    ASSUME ScopeLocked, TypeOK, Truth, Guarded, NEW r \in Runs, NEW j \in Jobs, WorkerStep(r, j)
    PROVE  Guarded'
  <1> DEFINE w == worker[r][j]
             rec == memory[r][j]
  <1>1. /\ w \in Workers /\ w.kind \in Kinds /\ rec \in JournalJob /\ w.recover \in SUBSET Kinds
        /\ w.project \in Projects \cup {None} /\ (w.kind = "project" <=> w.project = None)
        /\ Prudent(j, w, rec)
    BY DEF TypeOK, Workers, Guarded, AllPrudent
  <1>2. CASE StartJob(r, j)
    <2> DEFINE new == [NextStep(ResumeProject(rec), Recovers(rec)) EXCEPT !.pc = "locking"]
    <2>1. /\ UNCHANGED <<runPc, scope, journal, memory, official, inflight, forgotten>>
          /\ w.pc = "todo" /\ runPc[r] = "running"
          /\ \/ worker' = [worker EXCEPT ![r][j] = Finished]
             \/ ~Skipped(rec) /\ ~BlockedAmbiguous(rec) /\ worker' = [worker EXCEPT ![r][j] = new]
      BY <1>2 DEF StartJob, At, runVars, apiVars
    <2>2. CASE worker' = [worker EXCEPT ![r][j] = Finished]
      <3>1. Finished \in Workers /\ Prudent(j, Finished, rec)
        BY IdleType DEF Finished, Idle, Prudent
      <3> QED BY <2>1, <2>2, <3>1, MoveGuarded
    <2>3. CASE ~Skipped(rec) /\ ~BlockedAmbiguous(rec) /\ worker' = [worker EXCEPT ![r][j] = new]
      <3>1. \A k \in Kinds : Accounted(k, j, rec)
        BY <2>1 DEF Guarded, AllAccounted
      <3>2. NextStep(ResumeProject(rec), Recovers(rec)) \in Workers
        BY <1>1, NextStepType, ResumeProjectType, RecoversType
      <3>3. new \in Workers
        BY <3>2 DEF Workers, WorkerPcs
      <3>4. Prudent(j, new, rec)
        BY <1>1, <2>3, <3>1, StartsPrudently
      <3> HIDE DEF new
      <3> QED BY <2>1, <2>3, <3>3, <3>4, MoveGuarded
    <2> QED BY <2>1, <2>2, <2>3
  <1>3. CASE AcquireLock(r, j)
    <2> DEFINE new == NextStep(w.project, w.recover)
    <2>1. /\ UNCHANGED <<runPc, scope, journal, memory, official, inflight, forgotten>>
          /\ w.pc = "locking" /\ worker' = [worker EXCEPT ![r][j] = new]
      BY <1>3 DEF AcquireLock, At, runVars, apiVars
    <2>2. new \in Workers /\ new.kind = w.kind /\ new.recover = w.recover
          /\ new.pc = (IF w.kind \in w.recover THEN "recover" ELSE "announce")
      <3>1. new \in Workers
        BY <1>1, NextStepType
      <3> QED BY <1>1, <3>1 DEF NextStep, Kinds
    <2> HIDE DEF new
    <2>3. Prudent(j, new, rec)
      BY <1>1, <2>1, <2>2 DEF Prudent
    <2> QED BY <2>1, <2>2, <2>3, MoveGuarded
  <1>4. CASE GiveUp(r, j)
    <2>1. Finished \in Workers /\ Prudent(j, Finished, rec)
      BY IdleType DEF Finished, Idle, Prudent
    <2>2. /\ UNCHANGED <<runPc, scope, journal, memory, official, inflight, forgotten>>
          /\ w.pc = "locking" /\ worker' = [worker EXCEPT ![r][j] = Finished]
      BY <1>4 DEF GiveUp, At, runVars, apiVars
    <2> QED BY <2>1, <2>2, MoveGuarded
  <1>5. CASE Unknown(r, j)
    <2> DEFINE new == [w EXCEPT !.pc = "resolve"]
    <2>1. /\ UNCHANGED <<runPc, scope, journal, memory, official, inflight, forgotten>>
          /\ w.pc = "wait" /\ worker' = [worker EXCEPT ![r][j] = new]
      BY <1>5 DEF Unknown, At, Continue, runVars, apiVars
    <2>2. new \in Workers /\ new.kind = w.kind /\ new.recover = w.recover /\ new.pc = "resolve"
      BY <1>1 DEF Workers, WorkerPcs
    <2> HIDE DEF new
    <2>3. Prudent(j, new, rec)
      BY <1>1, <2>1, <2>2 DEF Prudent
    <2> QED BY <2>1, <2>2, <2>3, MoveGuarded
  <1>6. CASE Announce(r, j)
    <2> DEFINE mark == Applied(rec, Dispatching[w.kind], w.project, None, "none")
               new == [w EXCEPT !.pc = "send"]
    <2>1. /\ UNCHANGED <<runPc, scope, official, inflight, forgotten>>
          /\ w.pc = "announce" /\ Busy(r, j) /\ CheckpointThen(r, j, mark, new)
      BY <1>6 DEF Announce, At, Busy, runVars, apiVars
    <2>2. mark \in JournalJob /\ mark.status = Dispatching[w.kind]
          /\ (w.kind = "promotion" => mark.project # None)
      <3>1. mark \in JournalJob
        BY <1>1, AppliedType, StatusTypes
      <3> QED BY <1>1, <3>1 DEF Applied, Kinds
    <2>3. new \in Workers /\ new.pc = "send" /\ new.kind = w.kind /\ new.recover = w.recover
      BY <1>1 DEF Workers, WorkerPcs
    <2>4. Fresh(w.kind, j) /\ (w.kind = "project" => Fresh("promotion", j) /\ "promotion" \notin w.recover)
      BY <1>1, <2>1 DEF Prudent
    <2>5. \A k \in Kinds : Fresh(k, j) => Fresh(k, j)'
      <3>1. \A k : ObjectsOf(k, j)' \subseteq ObjectsOf(k, j)
        BY <2>1 DEF ObjectsOf
      <3> QED BY <2>1, <3>1, FreshKept
    <2> HIDE DEF mark, new
    <2>6. \A k \in Kinds : Fresh(k, j)' \/ Remembered(k, mark)
      BY <1>1, <2>2, <2>4, <2>5, RememberedBy DEF Kinds
    <2>7. ASSUME NEW k \in Kinds, NEW x \in Workers, NEW y, k = w.kind, x.kind = k, x.pc = "send",
                 x.recover = w.recover, y.status = Dispatching[k], k = "promotion" => y.project # None
          PROVE  Prudent(j, x, y)'
      BY <2>4, <2>5, <2>7 DEF Prudent, Kinds
    <2> QED BY <1>1, <2>1, <2>2, <2>3, <2>6, <2>7, CheckpointGuarded
  <1>7. CASE Send(r, j)
    BY <1>7, SendGuarded
  <1>8. CASE NotSent(r, j)
    <2>1. /\ UNCHANGED <<runPc, scope, official, inflight, forgotten>> /\ Busy(r, j) /\ w.pc = "send"
          /\ Fail(r, j, FailedStatus[w.kind], "not_sent")
      BY <1>8 DEF NotSent, At, Busy, runVars, apiVars
    <2>2. Fresh(w.kind, j)
      BY <1>1, <2>1 DEF Prudent
    <2>3. \A k \in Kinds : Fresh(k, j) => Fresh(k, j)'
      <3>1. \A k : ObjectsOf(k, j)' \subseteq ObjectsOf(k, j)
        BY <2>1 DEF ObjectsOf
      <3> QED BY <2>1, <3>1, FreshKept
    <2> QED BY <1>1, <2>1, <2>2, <2>3, FailGuarded, StatusTypes
  <1>9. CASE ErrorResponse(r, j)
    <2>1. /\ UNCHANGED <<runPc, scope, official, inflight>> /\ Busy(r, j)
          /\ Fail(r, j, FailedStatus[w.kind], "acknowledged") /\ Forget("error_response", w.kind, j)
      BY <1>9 DEF ErrorResponse, At, Busy, runVars, apiVars
    <2>2. \A k \in Kinds : k = w.kind => Fresh(k, j)' /\ forgotten \subseteq forgotten'
      BY <2>1, ForgetFrees DEF Reasons
    <2> QED BY <1>1, <2>1, <2>2, FailGuarded, StatusTypes
  <1>10. CASE Acknowledge(r, j)
    <2> DEFINE id == Requested(w.kind, j, r, w.project)
    <2>1. /\ UNCHANGED <<runPc, scope, official, inflight, forgotten>> /\ Busy(r, j)
          /\ Succeed(r, j, id, "acknowledged")
      BY <1>10 DEF Acknowledge, At, Busy, runVars, apiVars
    <2>2. id \in Objects /\ id.kind = w.kind
      BY <1>1, RequestedType DEF Requested
    <2> HIDE DEF id
    <2> QED BY <2>1, <2>2, SucceedGuarded, StatusTypes
  <1>11. CASE Resolve(r, j)
    <2>1. /\ UNCHANGED <<runPc, scope, official, inflight, forgotten>> /\ Busy(r, j)
          /\ \/ Fail(r, j, FailedStatus[w.kind], "unknown")
             \/ \E id \in Candidates(w.kind, j, w.project) : Succeed(r, j, id, "unknown")
             \/ Fail(r, j, "ambiguous", "unknown")
      BY <1>11 DEF Resolve, At, Busy, runVars, apiVars
    <2>2. CASE Fail(r, j, FailedStatus[w.kind], "unknown") \/ Fail(r, j, "ambiguous", "unknown")
      BY <1>1, <2>1, <2>2, FailGuarded, StatusTypes
    <2>3. CASE \E id \in Candidates(w.kind, j, w.project) : Succeed(r, j, id, "unknown")
      BY <2>1, <2>3, CandidatesType, SucceedGuarded, StatusTypes
    <2> QED BY <2>1, <2>2, <2>3
  <1>12. CASE Recover(r, j)
    <2>1. /\ UNCHANGED <<runPc, scope, official, inflight>> /\ Busy(r, j)
          /\ \/ /\ Fail(r, j, FailedStatus[w.kind], "none")
                /\ Forget("unread", w.kind, j) \/ Forget("late", w.kind, j)
             \/ \E id \in Candidates(w.kind, j, w.project) : Succeed(r, j, id, "none") /\ UNCHANGED forgotten
             \/ Fail(r, j, "ambiguous", "none") /\ UNCHANGED forgotten
      BY <1>12 DEF Recover, At, Busy, runVars, apiVars
    <2>2. CASE /\ Fail(r, j, FailedStatus[w.kind], "none")
               /\ Forget("unread", w.kind, j) \/ Forget("late", w.kind, j)
      <3>1. \A k \in Kinds : k = w.kind => Fresh(k, j)' /\ forgotten \subseteq forgotten'
        BY <2>1, <2>2, ForgetFrees DEF Reasons
      <3> QED BY <1>1, <2>1, <2>2, <3>1, FailGuarded, StatusTypes
    <2>3. CASE Fail(r, j, "ambiguous", "none") /\ UNCHANGED forgotten
      BY <1>1, <2>1, <2>3, FailGuarded, StatusTypes
    <2>4. CASE \E id \in Candidates(w.kind, j, w.project) : Succeed(r, j, id, "none") /\ UNCHANGED forgotten
      BY <2>1, <2>4, CandidatesType, SucceedGuarded, StatusTypes
    <2> QED BY <2>1, <2>2, <2>3, <2>4
  <1> QED
    BY <1>2, <1>3, <1>4, <1>5, <1>6, <1>7, <1>8, <1>9, <1>10, <1>11, <1>12 DEF WorkerStep

(* A run that ends, dies, starts, loads or creates the journal hides no    *)
(* object from the next one.                                               *)
LEMMA RunStepGuarded ==
    ASSUME ScopeLocked, TypeOK, Truth, Guarded, NEW r \in Runs,
           Begin(r) \/ LoadJournal(r) \/ CreateJournal(r) \/ EndRun(r) \/ Crash(r)
    PROVE  Guarded'
  <1>1. UNCHANGED <<official, inflight, forgotten>>
    BY DEF Begin, LoadJournal, CreateJournal, EndRun, Crash, Leave, apiVars
  <1>2. \A k, i : ObjectsOf(k, i)' = ObjectsOf(k, i) /\ Fresh(k, i)' = Fresh(k, i)
    BY <1>1 DEF ObjectsOf, Fresh, Forgotten
  <1>3. NoDuplicateObjects'
    BY <1>1, <1>2 DEF Guarded, NoDuplicateObjects, AtMostOneUnless, Forgotten
  <1>4. /\ OneRun
        /\ \A k \in Kinds, j \in Jobs :
              /\ Accounted(k, j, journal[j])
              /\ \A q \in Runs : runPc[q] = "running" => Accounted(k, j, memory[q][j])
        /\ \A q \in Runs, j \in Jobs : InStep(q, j) /\ Prudent(j, worker[q][j], memory[q][j])
    BY DEF Guarded, AllAccounted, AllPrudent
  <1>5. ASSUME OneRun',
               \A j \in Jobs : journal'[j] = journal[j],
               \A q \in Runs, j \in Jobs :
                   \/ runPc'[q] \in {"ended", "dead", "loading"} /\ worker'[q][j].pc \in {"todo", "done"}
                   \/ UNCHANGED <<runPc[q], worker[q][j], memory[q][j]>>
                   \/ runPc'[q] \in Active /\ ~Busy(q, j)' /\ memory'[q][j] = journal[j]
        PROVE  Guarded'
    <2>1. ASSUME NEW k \in Kinds, NEW j \in Jobs
          PROVE  /\ Accounted(k, j, journal[j])'
                 /\ \A q \in Runs : runPc'[q] = "running" => Accounted(k, j, memory[q][j])'
      BY <1>2, <1>4, <1>5 DEF Accounted, Remembered
    <2>2. ASSUME NEW q \in Runs, NEW j \in Jobs
          PROVE  InStep(q, j)' /\ Prudent(j, worker[q][j], memory[q][j])'
      <3>1. InStep(q, j)'
        BY <1>4, <1>5 DEF InStep
      <3>2. Prudent(j, worker[q][j], memory[q][j])'
        BY <1>2, <1>4, <1>5 DEF Prudent, Busy
      <3> QED BY <3>1, <3>2
    <2> QED BY <1>3, <1>5, <2>1, <2>2 DEF Guarded, AllAccounted, AllPrudent
  <1>6. CASE Begin(r)
    <2>1. OneRun'
      BY <1>4, <1>6, NoneAssumption DEF Begin, OneRun, Active, TypeOK
    <2>2. \A j \in Jobs : worker[r][j].pc \in {"todo", "done"}
      BY <1>6 DEF Begin, Truth, TrueWorker, Busy
    <2>3. \A q \in Runs : runPc'[q] = IF q = r THEN "loading" ELSE runPc[q]
      BY <1>6 DEF Begin, TypeOK
    <2> QED BY <1>5, <1>6, <2>1, <2>2, <2>3 DEF Begin
  <1>7. CASE LoadJournal(r)
    <2>1. OneRun'
      BY <1>4, <1>7 DEF LoadJournal, OneRun, Active, TypeOK
    <2>2. \A j \in Jobs : ~Busy(r, j)
      BY <1>7 DEF LoadJournal, Truth, TrueWorker
    <2>3. /\ \A q \in Runs : q # r => runPc'[q] = runPc[q] /\ memory'[q] = memory[q]
          /\ runPc'[r] \in Active /\ memory'[r] = journal
      BY <1>7 DEF LoadJournal, TypeOK, Active
    <2> QED BY <1>5, <1>7, <2>1, <2>2, <2>3 DEF LoadJournal, Busy
  <1>8. CASE CreateJournal(r)
    <2>1. OneRun'
      BY <1>4, <1>8 DEF CreateJournal, OneRun, Active, TypeOK
    <2>2. \A j \in Jobs : ~Busy(r, j) /\ memory[r][j] = journal[j]
      BY <1>4, <1>8 DEF CreateJournal, Truth, TrueWorker, InStep
    <2>3. \A q \in Runs : q # r => runPc'[q] = runPc[q]
      BY <1>8 DEF CreateJournal, TypeOK
    <2>4. runPc'[r] \in Active
      BY <1>8 DEF CreateJournal, TypeOK, Active
    <2> QED BY <1>5, <1>8, <2>1, <2>2, <2>3, <2>4 DEF CreateJournal, Busy
  <1>9. ASSUME NEW pc \in {"ended", "dead"}, Leave(r, pc) PROVE Guarded'
    <2>1. /\ \A q \in Runs : q # r => runPc'[q] = runPc[q] /\ memory'[q] = memory[q] /\ worker'[q] = worker[q]
          /\ runPc'[r] = pc /\ \A j \in Jobs : worker'[r][j].pc = "done"
      BY <1>9 DEF Leave, TypeOK, Finished, Idle
    <2>2. OneRun'
      BY <1>4, <1>9, <2>1 DEF Leave, OneRun, Active
    <2> QED BY <1>5, <1>9, <2>1, <2>2 DEF Leave
  <1> QED BY <1>6, <1>7, <1>8, <1>9 DEF EndRun, Crash

LEMMA PlatformGuarded ==
    ASSUME TypeOK, Guarded, NEW o \in inflight, Land(o) \/ Drop(o)
    PROVE  Guarded'
  <1>1. UNCHANGED <<runPc, scope, journal, memory, worker, forgotten>>
        /\ \A k, i : ObjectsOf(k, i)' \subseteq ObjectsOf(k, i)
    BY DEF Land, Drop, runVars, ObjectsOf
  <1>2. \A k, i : Fresh(k, i) => Fresh(k, i)'
    BY <1>1, FreshKept
  <1>3. NoDuplicateObjects'
    BY <1>1, NoDuplicateKept DEF Guarded
  <1>4. OneRun' /\ AllAccounted'
    BY <1>1, <1>2 DEF Guarded, OneRun, AllAccounted, Accounted, Remembered
  <1>5. AllPrudent'
    BY <1>1, <1>2 DEF Guarded, AllPrudent, InStep, Prudent
  <1> QED BY <1>3, <1>4, <1>5 DEF Guarded

(* The strengthening holds in every behaviour of an upload batch.          *)
LEMMA GuardedHolds == ASSUME ScopeLocked PROVE Spec => []Guarded
  <1>1. ASSUME Init PROVE Guarded
    <2>1. \A k, j : Fresh(k, j) /\ ObjectsOf(k, j) = {}
      BY <1>1 DEF Init, Fresh, ObjectsOf
    <2>2. NoDuplicateObjects /\ AllAccounted
      BY <2>1 DEF NoDuplicateObjects, AtMostOneUnless, AllAccounted, Accounted
    <2>3. OneRun /\ \A r \in Runs, j \in Jobs : InStep(r, j)
      BY <1>1 DEF Init, OneRun, InStep, Active
    <2>4. \A r \in Runs, j \in Jobs : Prudent(j, worker[r][j], memory[r][j])
      BY <1>1 DEF Init, Prudent, Idle
    <2> QED BY <2>2, <2>3, <2>4 DEF Guarded, AllPrudent
  <1>2. TypeOK /\ Truth /\ Guarded /\ [Next]_vars => Guarded'
    <2> SUFFICES ASSUME TypeOK, Truth, Guarded, [Next]_vars PROVE Guarded'
      OBVIOUS
    <2>1. ASSUME NEW r \in Runs, Begin(r) \/ LoadJournal(r) \/ CreateJournal(r) \/ EndRun(r) \/ Crash(r)
          PROVE  Guarded'
      BY <2>1, RunStepGuarded
    <2>2. ASSUME NEW r \in Runs, NEW j \in Jobs, WorkerStep(r, j) PROVE Guarded'
      BY <2>2, WorkerStepGuarded
    <2>3. ASSUME NEW o \in inflight, Land(o) \/ Drop(o) PROVE Guarded'
      BY <2>3, PlatformGuarded
    <2>4. CASE UNCHANGED vars
      BY <2>4 DEF vars, Guarded, NoDuplicateObjects, AtMostOneUnless, OneRun, AllAccounted, AllPrudent, Accounted,
         InStep, Prudent, Fresh, Forgotten, Remembered, ObjectsOf
    <2> QED BY <2>1, <2>2, <2>3, <2>4 DEF Next, RunStep
  <1> QED BY <1>1, <1>2, TypeCorrect, TruthHolds, PTL DEF Spec

(* NoDuplicateObjects: whatever runs of an upload crash, resume and repeat, *)
(* and whenever a request takes effect, a job has at most one project and  *)
(* one promotion, unless one of the three verdicts of executor.go that are *)
(* known to err (an error answer, an unread or an empty readback) was      *)
(* passed on it.                                                           *)
THEOREM NothingCreatedTwice == ASSUME ScopeLocked PROVE Spec => []NoDuplicateObjects
  <1>1. Guarded => NoDuplicateObjects
    BY DEF Guarded
  <1> QED BY <1>1, GuardedHolds, PTL

-----------------------------------------------------------------------------
(* Objects stay with their jobs                                            *)

(* uploadGroupNames puts the number of the unit into the names: no two     *)
(* jobs of an advertiser share one.                                        *)
OwnNames ==
    \A i, j \in Jobs : AdvertiserOf[i] = AdvertiserOf[j] /\ NameOf[i] = NameOf[j] => i = j

OwnRecord(j, rec) ==
    /\ rec.project # None => rec.project.job = j
    /\ rec.promotion # None => rec.promotion.job = j
OwnWorker(j, w) == w.project # None => w.project.job = j

(* The inductive invariant.                                                *)
Owned ==
    /\ \A j \in Jobs : OwnRecord(j, journal[j])
    /\ \A r \in Runs, j \in Jobs : OwnRecord(j, memory[r][j]) /\ OwnWorker(j, worker[r][j])

LEMMA AppliedOwn ==
    ASSUME NEW j, NEW rec, OwnRecord(j, rec), NEW status, NEW project, NEW promotion, NEW dispatch,
           project # None => project.job = j, promotion # None => promotion.job = j
    PROVE  OwnRecord(j, Applied(rec, status, project, promotion, dispatch))
  BY DEF OwnRecord, Applied

LEMMA CheckpointOwned ==
    ASSUME TypeOK, Owned, NEW r \in Runs, NEW j \in Jobs, NEW rec \in JournalJob, NEW w \in Workers,
           OwnRecord(j, rec), OwnWorker(j, w),
           CheckpointThen(r, j, rec, w) \/ CheckpointAndFinish(r, j, rec)
    PROVE  Owned'
  <1>1. /\ memory' = [memory EXCEPT ![r][j] = rec]
        /\ journal' \in {journal, Written(r, j, rec)}
        /\ \/ worker' = [worker EXCEPT ![r][j] = w]
           \/ worker' = [worker EXCEPT ![r][j] = Finished]
    BY DEF CheckpointThen, CheckpointAndFinish, Record, Continue, Finish
  <1>2. \A q \in Runs, i \in Jobs : memory'[q][i] = IF q = r /\ i = j THEN rec ELSE memory[q][i]
    BY <1>1 DEF TypeOK
  <1>3. \A i \in Jobs : journal'[i] \in {journal[i], IF i = j THEN rec ELSE memory[r][i]}
    BY <1>1 DEF TypeOK, Written
  <1>4. \A q \in Runs, i \in Jobs :
            worker'[q][i] = worker[q][i] \/ (i = j /\ worker'[q][i] \in {w, Finished})
    BY <1>1 DEF TypeOK
  <1>5. OwnWorker(j, Finished)
    BY DEF OwnWorker, Finished, Idle
  <1>6. ASSUME NEW i \in Jobs PROVE OwnRecord(i, journal'[i])
    BY <1>3 DEF Owned
  <1>7. ASSUME NEW q \in Runs, NEW i \in Jobs PROVE OwnRecord(i, memory'[q][i]) /\ OwnWorker(i, worker'[q][i])
    BY <1>2, <1>4, <1>5 DEF Owned
  <1> QED BY <1>6, <1>7 DEF Owned, OwnRecord, OwnWorker

LEMMA SucceedOwned ==
    ASSUME TypeOK, Owned, NEW r \in Runs, NEW j \in Jobs, NEW id \in Objects, NEW dispatch \in DispatchStates,
           id.kind = worker[r][j].kind, id.job = j, Succeed(r, j, id, dispatch)
    PROVE  Owned'
  <1> DEFINE w == worker[r][j]
  <1>1. /\ w \in Workers /\ memory[r][j] \in JournalJob /\ w.project \in Projects \cup {None}
        /\ w.recover \in SUBSET Kinds /\ OwnRecord(j, memory[r][j]) /\ OwnWorker(j, w)
    BY DEF TypeOK, Workers, Owned
  <1>2. CASE w.kind = "project"
    <2> DEFINE rec == Applied(memory[r][j], "project_created", id, None, dispatch)
               next == NextStep(id, w.recover)
    <2>1. id \in Projects
      BY <1>2, ObjectKind
    <2>2. rec \in JournalJob
      BY <1>1, <2>1, AppliedType, StatusTypes
    <2>3. next \in Workers /\ next.project = id
      BY <1>1, <2>1, NextStepType
    <2>4. CheckpointThen(r, j, rec, next)
      BY <1>2 DEF Succeed
    <2>5. OwnRecord(j, rec)
      BY <1>1, AppliedOwn
    <2> HIDE DEF rec, next
    <2>6. OwnWorker(j, next)
      BY <2>3 DEF OwnWorker
    <2> QED BY <2>2, <2>3, <2>4, <2>5, <2>6, CheckpointOwned
  <1>3. CASE w.kind = "promotion"
    <2> DEFINE rec == Applied(memory[r][j], "completed", w.project, id, dispatch)
    <2>1. id \in Promotions
      BY <1>3, ObjectKind
    <2>2. rec \in JournalJob
      BY <1>1, <2>1, AppliedType, StatusTypes
    <2>3. CheckpointAndFinish(r, j, rec)
      BY <1>3 DEF Succeed
    <2>4. OwnRecord(j, rec)
      BY <1>1, AppliedOwn DEF OwnWorker
    <2> HIDE DEF rec
    <2> QED BY <1>1, <2>2, <2>3, <2>4, CheckpointOwned
  <1> QED BY <1>1, <1>2, <1>3 DEF Workers, Kinds

(* A stage that ends badly, or is announced, names nobody else's object.   *)
LEMMA SameProjectOwned ==
    ASSUME TypeOK, Owned, NEW r \in Runs, NEW j \in Jobs, NEW status \in Statuses,
           NEW dispatch \in DispatchStates
    PROVE  LET rec == Applied(memory[r][j], status, worker[r][j].project, None, dispatch) IN
           rec \in JournalJob /\ OwnRecord(j, rec)
  <1>1. /\ worker[r][j].project \in Projects \cup {None} /\ memory[r][j] \in JournalJob
        /\ OwnRecord(j, memory[r][j]) /\ OwnWorker(j, worker[r][j])
    BY DEF TypeOK, Workers, Owned
  <1> QED BY <1>1, AppliedType, AppliedOwn DEF OwnWorker

LEMMA FailOwned ==
    ASSUME TypeOK, Owned, NEW r \in Runs, NEW j \in Jobs, NEW status \in Statuses,
           NEW dispatch \in DispatchStates, Fail(r, j, status, dispatch)
    PROVE  Owned'
  <1>1. OwnWorker(j, Finished)
    BY DEF OwnWorker, Finished, Idle
  <1> QED BY <1>1, SameProjectOwned, CheckpointOwned, IdleType DEF Fail

LEMMA CandidatesOwn ==
    ASSUME OwnNames, TypeOK, NEW j \in Jobs, NEW k, NEW parent, NEW id \in Candidates(k, j, parent)
    PROVE  id.job = j
  BY ObjectKind DEF Candidates, TypeOK, OwnNames

LEMMA WorkerStepOwned ==
    ASSUME OwnNames, TypeOK, Owned, NEW r \in Runs, NEW j \in Jobs, WorkerStep(r, j)
    PROVE  Owned'
  <1> DEFINE w == worker[r][j]
             rec == memory[r][j]
  <1>1. /\ w \in Workers /\ w.kind \in Kinds /\ rec \in JournalJob
        /\ OwnRecord(j, rec) /\ OwnWorker(j, w)
    BY DEF TypeOK, Workers, Owned
  <1>2. CASE StartJob(r, j) \/ AcquireLock(r, j) \/ GiveUp(r, j) \/ Send(r, j) \/ Unknown(r, j)
    <2>1. PICK new : worker' = [worker EXCEPT ![r][j] = new] /\ new.project \in {None, w.project, ResumeProject(rec)}
      <3>1. CASE StartJob(r, j)
        <4> DEFINE first == [NextStep(ResumeProject(rec), Recovers(rec)) EXCEPT !.pc = "locking"]
        <4>1. first.project = ResumeProject(rec) /\ Finished.project = None
          BY DEF NextStep, Finished, Idle
        <4>2. worker' = [worker EXCEPT ![r][j] = Finished] \/ worker' = [worker EXCEPT ![r][j] = first]
          BY <3>1 DEF StartJob
        <4> HIDE DEF first
        <4> QED BY <4>1, <4>2
      <3>2. CASE AcquireLock(r, j)
        <4> DEFINE next == NextStep(w.project, w.recover)
        <4>1. next.project = w.project
          BY DEF NextStep
        <4>2. worker' = [worker EXCEPT ![r][j] = next]
          BY <3>2 DEF AcquireLock
        <4> HIDE DEF next
        <4> QED BY <4>1, <4>2
      <3>3. CASE GiveUp(r, j)
        <4>1. Finished.project = None
          BY DEF Finished, Idle
        <4>2. worker' = [worker EXCEPT ![r][j] = Finished]
          BY <3>3 DEF GiveUp
        <4> QED BY <4>1, <4>2
      <3>4. CASE Send(r, j) \/ Unknown(r, j)
        <4>1. PICK pc : worker' = [worker EXCEPT ![r][j] = [w EXCEPT !.pc = pc]]
          BY <3>4 DEF Send, Unknown, Continue
        <4>2. [w EXCEPT !.pc = pc].project = w.project
          BY <1>1 DEF Workers
        <4> QED BY <4>1, <4>2
      <3> QED BY <1>2, <3>1, <3>2, <3>3, <3>4
    <2>2. UNCHANGED <<journal, memory>>
      BY <1>2 DEF StartJob, AcquireLock, GiveUp, Send, Unknown
    <2>3. OwnWorker(j, new)
      BY <1>1, <2>1 DEF OwnWorker, OwnRecord, ResumeProject
    <2>4. \A q \in Runs, i \in Jobs : OwnWorker(i, worker'[q][i])
      BY <2>1, <2>3 DEF TypeOK, Owned
    <2> QED BY <2>2, <2>4 DEF Owned, OwnRecord, OwnWorker
  <1>3. CASE Announce(r, j)
    <2> DEFINE mark == Applied(rec, Dispatching[w.kind], w.project, None, "none")
               new == [w EXCEPT !.pc = "send"]
    <2>1. CheckpointThen(r, j, mark, new)
      BY <1>3 DEF Announce
    <2>2. mark \in JournalJob /\ OwnRecord(j, mark)
      BY <1>1, SameProjectOwned, StatusTypes
    <2>3. new \in Workers /\ new.project = w.project
      BY <1>1 DEF Workers, WorkerPcs
    <2> HIDE DEF mark, new
    <2>4. OwnWorker(j, new)
      BY <1>1, <2>3 DEF OwnWorker
    <2> QED BY <2>1, <2>2, <2>3, <2>4, CheckpointOwned
  <1>4. CASE NotSent(r, j) \/ ErrorResponse(r, j)
    BY <1>1, <1>4, FailOwned, StatusTypes DEF NotSent, ErrorResponse
  <1>5. CASE Acknowledge(r, j)
    <2> DEFINE id == Requested(w.kind, j, r, w.project)
    <2>1. Succeed(r, j, id, "acknowledged")
      BY <1>5 DEF Acknowledge
    <2>2. id \in Objects /\ id.kind = w.kind /\ id.job = j
      BY <1>1, RequestedType DEF Requested
    <2> HIDE DEF id
    <2> QED BY <2>1, <2>2, SucceedOwned, StatusTypes
  <1>6. CASE Recover(r, j) \/ Resolve(r, j)
    <2>1. \E dispatch \in DispatchStates :
             \/ \E s \in Statuses : Fail(r, j, s, dispatch)
             \/ \E id \in Candidates(w.kind, j, w.project) : Succeed(r, j, id, dispatch)
      BY <1>1, <1>6, StatusTypes DEF Recover, Resolve
    <2>2. CASE \E dispatch \in DispatchStates, s \in Statuses : Fail(r, j, s, dispatch)
      BY <2>2, FailOwned
    <2>3. CASE \E dispatch \in DispatchStates, id \in Candidates(w.kind, j, w.project) :
                  Succeed(r, j, id, dispatch)
      BY <2>3, CandidatesType, CandidatesOwn, SucceedOwned
    <2> QED BY <2>1, <2>2, <2>3
  <1> QED BY <1>2, <1>3, <1>4, <1>5, <1>6 DEF WorkerStep

LEMMA OwnedHolds == ASSUME OwnNames PROVE Spec => []Owned
  <1>1. /\ \A j : OwnRecord(j, Pending) /\ OwnWorker(j, Idle) /\ OwnWorker(j, Finished)
        /\ \A j \in Jobs : NewJournal[j] = Pending
    BY DEF OwnRecord, OwnWorker, Pending, Idle, Finished, NewJournal
  <1>2. ASSUME Init PROVE Owned
    <2>1. /\ \A j \in Jobs : journal[j] = Pending
          /\ \A r \in Runs, j \in Jobs : memory[r][j] = Pending /\ worker[r][j] = Idle
      BY <1>1, <1>2 DEF Init
    <2> QED BY <1>1, <2>1 DEF Owned
  <1>3. TypeOK /\ Owned /\ [Next]_vars => Owned'
    <2> SUFFICES ASSUME TypeOK, Owned, [Next]_vars PROVE Owned'
      OBVIOUS
    <2>1. ASSUME \A j \in Jobs : OwnRecord(j, journal'[j]),
                 \A r \in Runs, j \in Jobs : OwnRecord(j, memory'[r][j]) /\ OwnWorker(j, worker'[r][j])
          PROVE  Owned'
      BY <2>1 DEF Owned, OwnRecord, OwnWorker
    <2>2. ASSUME NEW r \in Runs, LoadJournal(r) PROVE Owned'
      <3>1. \A q \in Runs, j \in Jobs : memory'[q][j] = IF q = r THEN journal[j] ELSE memory[q][j]
        BY <2>2 DEF LoadJournal, TypeOK
      <3> QED BY <2>1, <2>2, <3>1 DEF LoadJournal, Owned
    <2>3. ASSUME NEW r \in Runs, CreateJournal(r) PROVE Owned'
      BY <2>1, <2>3 DEF CreateJournal, Owned
    <2>4. ASSUME NEW r \in Runs, NEW pc, Leave(r, pc) PROVE Owned'
      <3>1. \A q \in Runs, j \in Jobs : /\ memory'[q][j] = IF q = r THEN Pending ELSE memory[q][j]
                                        /\ worker'[q][j] = IF q = r THEN Finished ELSE worker[q][j]
        BY <1>1, <2>4 DEF Leave, TypeOK
      <3> QED BY <1>1, <2>1, <2>4, <3>1 DEF Leave, Owned
    <2>5. ASSUME NEW r \in Runs, NEW j \in Jobs, WorkerStep(r, j), OwnNames PROVE Owned'
      BY <2>5, WorkerStepOwned
    <2>6. ASSUME UNCHANGED <<journal, memory, worker>> PROVE Owned'
      BY <2>6 DEF Owned, OwnRecord, OwnWorker
    <2>7. ASSUME NEW r \in Runs, Begin(r) PROVE Owned'
      BY <2>6, <2>7 DEF Begin
    <2>8. ASSUME NEW o \in inflight, Land(o) \/ Drop(o) PROVE Owned'
      BY <2>6, <2>8 DEF Land, Drop
    <2>9. CASE UNCHANGED vars
      BY <2>6, <2>9 DEF vars
    <2> QED BY <2>2, <2>3, <2>4, <2>5, <2>7, <2>8, <2>9 DEF Next, RunStep, EndRun, Crash
  <1> QED BY <1>2, <1>3, TypeCorrect, PTL DEF Spec

(* ObjectsStayWithTheirJobs: the journal of an upload batch always knows   *)
(* the way to every object that exists or may still come about, and names  *)
(* none that another unit asked for (batch.go batchAction, marketing_plans.go *)
(* FindProjects), whatever died, came late or was not saved.               *)
THEOREM ObjectsStay == ASSUME ScopeLocked, OwnNames PROVE Spec => []ObjectsStayWithTheirJobs
  <1>1. Guarded => NothingLost
    BY DEF Guarded, AllAccounted, Accounted, Fresh, NothingLost
  <1>2. Owned => NoForeignAdoption
    BY DEF Owned, OwnRecord, NoForeignAdoption
  <1>3. Guarded /\ Owned => ObjectsStayWithTheirJobs
    BY <1>1, <1>2 DEF ObjectsStayWithTheirJobs
  <1> QED BY <1>3, GuardedHolds, OwnedHolds, PTL

-----------------------------------------------------------------------------
(* The batch implements the ledger                                         *)

(* A promotion is asked for only under a project that exists.              *)
Parented == \A o \in inflight : o.kind = "promotion" => o.parent \in official

Excused == {<<f[2], f[3]>> : f \in forgotten}

(* What a goroutine's step does to the platform and to the verdicts.       *)
LEMMA WorkerStepOutside ==
    ASSUME TypeOK, Truth, NEW r \in Runs, NEW j \in Jobs, WorkerStep(r, j)
    PROVE  /\ official' = official
           /\ \/ inflight' = inflight
              \/ \E o \in Objects : /\ inflight' = inflight \cup {o}
                                    /\ o.kind = "promotion" => o.parent \in official
           /\ \/ forgotten' = forgotten
              \/ \E reason \in Reasons, k \in Kinds : Forget(reason, k, j)
  <1> DEFINE w == worker[r][j]
  <1>1. w \in Workers /\ w.kind \in Kinds /\ TrueWorker(r, j)
    BY DEF TypeOK, Workers, Truth
  <1>2. CASE Send(r, j)
    <2> DEFINE o == Requested(w.kind, j, r, w.project)
    <2>1. o \in Objects /\ o.kind = w.kind /\ o.parent = w.project
      BY <1>1, RequestedType DEF Requested
    <2>2. inflight' = inflight \cup {o} /\ UNCHANGED <<official, forgotten>> /\ Busy(r, j)
      BY <1>2 DEF Send, At, Busy
    <2>3. w.kind = "promotion" => w.project \in official
      BY <1>1, <2>2 DEF TrueWorker, Workers
    <2> HIDE DEF o
    <2> QED BY <2>1, <2>2, <2>3
  <1>3. CASE Recover(r, j) \/ ErrorResponse(r, j)
    BY <1>1, <1>3 DEF Recover, ErrorResponse, apiVars, Reasons
  <1>4. CASE \/ StartJob(r, j) \/ AcquireLock(r, j) \/ GiveUp(r, j) \/ Announce(r, j) \/ NotSent(r, j)
             \/ Acknowledge(r, j) \/ Unknown(r, j) \/ Resolve(r, j)
    BY <1>4 DEF StartJob, AcquireLock, GiveUp, Announce, NotSent, Acknowledge, Unknown, Resolve, apiVars
  <1> QED BY <1>2, <1>3, <1>4 DEF WorkerStep

LEMMA RunStepOutside ==
    ASSUME NEW r \in Runs, Begin(r) \/ LoadJournal(r) \/ CreateJournal(r) \/ EndRun(r) \/ Crash(r)
    PROVE  UNCHANGED <<official, inflight, forgotten>>
  BY DEF Begin, LoadJournal, CreateJournal, EndRun, Crash, Leave, apiVars

LEMMA ParentedHolds == Spec => []Parented
  <1>1. Init => Parented
    BY DEF Init, Parented
  <1>2. TypeOK /\ Truth /\ Parented /\ [Next]_vars => Parented'
    <2> SUFFICES ASSUME TypeOK, Truth, Parented, [Next]_vars PROVE Parented'
      OBVIOUS
    <2>1. ASSUME NEW r \in Runs, Begin(r) \/ LoadJournal(r) \/ CreateJournal(r) \/ EndRun(r) \/ Crash(r)
          PROVE  Parented'
      BY <2>1, RunStepOutside DEF Parented
    <2>2. ASSUME NEW r \in Runs, NEW j \in Jobs, WorkerStep(r, j) PROVE Parented'
      BY <2>2, WorkerStepOutside DEF Parented
    <2>3. ASSUME NEW o \in inflight, Land(o) \/ Drop(o) PROVE Parented'
      BY <2>3 DEF Land, Drop, Parented
    <2>4. CASE UNCHANGED vars
      BY <2>4 DEF vars, Parented
    <2> QED BY <2>1, <2>2, <2>3, <2>4 DEF Next, RunStep
  <1> QED BY <1>1, <1>2, TypeCorrect, TruthHolds, PTL DEF Spec

(* A verdict excuses its key, which has an object.                         *)
LEMMA ForgetExcuses ==
    ASSUME TypeOK, NEW reason \in Reasons, NEW k \in Kinds, NEW j \in Jobs, Forget(reason, k, j),
           official' = official
    PROVE  [Ledger!Next]_<<official, Excused>>
  <1>1. CASE ObjectsOf(k, j) = {}
    BY <1>1 DEF Forget, Excused
  <1>2. CASE ObjectsOf(k, j) # {}
    <2>1. PICK o \in ObjectsOf(k, j) : TRUE
      BY <1>2
    <2>2. o \in Objects /\ Ledger!Key(o) = <<k, j>>
      BY <2>1 DEF ObjectsOf, TypeOK, Ledger!Key
    <2>3. forgotten' = forgotten \cup {<<reason, k, j>>}
      BY <1>2 DEF Forget
    <2>4. Excused' = Excused \cup {<<k, j>>}
      <3>1. \A f : f \in forgotten' <=> f \in forgotten \/ f = <<reason, k, j>>
        BY <2>3
      <3>2. <<<<reason, k, j>>[2], <<reason, k, j>>[3]>> = <<k, j>>
        OBVIOUS
      <3>3. \A x : x \in Excused' <=> \E f \in forgotten' : x = <<f[2], f[3]>>
        BY DEF Excused
      <3>4. \A x : x \in Excused <=> \E f \in forgotten : x = <<f[2], f[3]>>
        BY DEF Excused
      <3>5. \A x : x \in Excused' <=> x \in Excused \/ x = <<k, j>>
        BY <3>1, <3>2, <3>3, <3>4
      <3> QED BY <3>5
    <2>5. Ledger!Excuse(<<k, j>>)
      BY <2>4 DEF Ledger!Excuse, Excused
    <2>6. <<k, j>> \in {Ledger!Key(p) : p \in Objects}
      BY <2>2
    <2> QED BY <2>5, <2>6 DEF Ledger!Next
  <1> QED BY <1>1, <1>2

(* A request that takes effect is the first of its key, or excused.        *)
LEMMA LandCreates ==
    ASSUME TypeOK, NoDuplicateObjects, Parented, NEW o \in inflight, Land(o)
    PROVE  [Ledger!Next]_<<official, Excused>>
  <1>1. /\ official' = official \cup {o} /\ forgotten' = forgotten /\ o \in Objects
        /\ o.kind \in Kinds /\ o.job \in Jobs
    BY ObjectKind DEF Land, TypeOK
  <1>2. Excused' = Excused
    BY <1>1 DEF Excused
  <1>3. CASE o \in official
    BY <1>1, <1>2, <1>3
  <1>4. CASE o \notin official
    <2>1. ASSUME Ledger!Key(o) \notin Excused, NEW p \in official PROVE Ledger!Key(p) # Ledger!Key(o)
      <3> SUFFICES ASSUME Ledger!Key(p) = Ledger!Key(o) PROVE FALSE
        OBVIOUS
      <3>1. p.kind = o.kind /\ p.job = o.job
        BY DEF Ledger!Key
      <3>2. \A e : <<e, o.kind, o.job>> \notin forgotten
        <4> SUFFICES ASSUME NEW e, <<e, o.kind, o.job>> \in forgotten PROVE FALSE
          OBVIOUS
        <4>1. <<<<e, o.kind, o.job>>[2], <<e, o.kind, o.job>>[3]>> \in Excused
          BY DEF Excused
        <4> QED BY <2>1, <4>1 DEF Ledger!Key
      <3>3. p \in ObjectsOf(o.kind, o.job) /\ o \in ObjectsOf(o.kind, o.job)
        BY <3>1 DEF ObjectsOf
      <3>4. ~Forgotten(o.kind, o.job, Reasons)
        BY <3>2 DEF Forgotten
      <3>5. p = o
        BY <1>1, <3>3, <3>4 DEF NoDuplicateObjects, AtMostOneUnless
      <3> QED BY <1>4, <3>5
    <2>2. o.kind = "promotion" => o.parent \in official
      BY DEF Parented
    <2>3. Ledger!Create(o)
      BY <1>1, <1>2, <2>1, <2>2 DEF Ledger!Create, Excused
    <2> QED BY <1>1, <2>3 DEF Ledger!Next
  <1> QED BY <1>3, <1>4

(* LedgerSpec: with all its runs, crashes and late answers, an upload batch *)
(* does to the platform only what the ledger allows: an object is created  *)
(* once for its job and stage unless the key is excused, a promotion only  *)
(* under an existing project, and nothing is ever taken back.              *)
THEOREM ImplementsLedger == ASSUME ScopeLocked PROVE Spec => LedgerSpec
  <1>1. Init => Ledger!Init
    BY DEF Init, Ledger!Init
  <1>2. TypeOK /\ Truth /\ NoDuplicateObjects /\ Parented /\ [Next]_vars => [Ledger!Next]_<<official, Excused>>
    <2> SUFFICES ASSUME TypeOK, Truth, NoDuplicateObjects, Parented, [Next]_vars
                 PROVE  [Ledger!Next]_<<official, Excused>>
      OBVIOUS
    <2>1. ASSUME UNCHANGED <<official, forgotten>> PROVE [Ledger!Next]_<<official, Excused>>
      BY <2>1 DEF Excused
    <2>2. ASSUME NEW r \in Runs, Begin(r) \/ LoadJournal(r) \/ CreateJournal(r) \/ EndRun(r) \/ Crash(r)
          PROVE  [Ledger!Next]_<<official, Excused>>
      BY <2>1, <2>2, RunStepOutside
    <2>3. ASSUME NEW r \in Runs, NEW j \in Jobs, WorkerStep(r, j)
          PROVE  [Ledger!Next]_<<official, Excused>>
      BY <2>1, <2>3, WorkerStepOutside, ForgetExcuses
    <2>4. ASSUME NEW o \in inflight, Land(o) PROVE [Ledger!Next]_<<official, Excused>>
      BY <2>4, LandCreates
    <2>5. ASSUME NEW o \in inflight, Drop(o) PROVE [Ledger!Next]_<<official, Excused>>
      BY <2>1, <2>5 DEF Drop
    <2>6. CASE UNCHANGED vars
      BY <2>1, <2>6 DEF vars
    <2> QED BY <2>2, <2>3, <2>4, <2>5, <2>6 DEF Next, RunStep
  <1> QED
    BY <1>1, <1>2, TypeCorrect, TruthHolds, NothingCreatedTwice, ParentedHolds, PTL
    DEF Spec, LedgerSpec, Ledger!Spec, Excused
=============================================================================
