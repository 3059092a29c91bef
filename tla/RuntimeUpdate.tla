--------------------------- MODULE RuntimeUpdate ---------------------------
(* The versioned private runtime (runtimeupdate/manager.go) and the stdio   *)
(* proxy that switches its session between versions (mcpserver/proxy.go).   *)
(* Several processes share one Codex root: proxies, with a thread per tool  *)
(* call, a monitor and a main thread that closes, and CLI commands that run *)
(* a child from a slot.  A bundle stands for the SHA-256 of a runtime       *)
(* manifest; slot[b] is the private directory versions/<b>.                 *)
EXTENDS Integers, Sequences, FiniteSets, SequencesExt

CONSTANTS
    Bundles,        \* manifests that may be installed
    Version,        \* product version of a bundle, as a number
    Catalog,        \* the MCP tool catalogue a bundle serves
    Procs,          \* processes
    Threads,        \* threads of all processes
    ProcOf,         \* the process of a thread
    Kind,           \* "call", "monitor", "close" or "exec"
    Home,           \* the bundle whose plugin root a process was started from
    Frail,          \* bundles that may start late, or not at all
    MaxInstalls,    \* bound on what the host installs
    MaxCrashes,     \* bound on the processes that die
    Leftover,       \* slots an interrupted process has left incomplete
    None

ASSUME VersionAssumption == Version \in [Bundles -> Nat]
ASSUME ThreadAssumption ==
    /\ ProcOf \in [Threads -> Procs]
    /\ Kind \in [Threads -> {"call", "monitor", "close", "exec"}]
    /\ Home \in [Procs -> Bundles]
ASSUME BoundAssumption ==
    /\ MaxInstalls \in Nat /\ MaxCrashes \in Nat /\ Leftover \subseteq Bundles
    /\ Frail \subseteq Bundles
ASSUME NoneAssumption == None \notin Bundles /\ None \notin Threads

VARIABLES
    cache,      \* the plugin directories as they were installed, oldest
                \* first; one that is installed anew appears again
    installs,   \* how often the host has installed
    slot,       \* what versions/<b> holds
    alias,      \* the link in place of b's deleted plugin directory
    state,      \* state.json: current, previous and rejected bundle
    lock,       \* holder of resolve.lock
    mu,         \* holder of a proxy's mutex
    current,    \* index of a proxy's current session, 0 for none
    sessions,   \* the sessions a proxy has opened
    seen,       \* the fingerprint a proxy's monitor saw last
    pc,
    cand,       \* the candidate a thread resolved
    leases,     \* threads that hold a shared lock on their candidate's lease
    work,       \* bundles a thread has ready to select, or still to collect
    restored,   \* what Reject answered
    conn,       \* the session of a call
    torn,       \* processes that died holding resolve.lock
    crashes     \* how many processes have died

host == <<cache, installs, crashes>>
files == <<slot, alias, state>>
proxy == <<current, sessions, seen>>
locals == <<cand, work, restored, conn>>
vars == <<host, files, lock, mu, proxy, pc, locals, leases, torn>>

-----------------------------------------------------------------------------
Installed == ToSet(cache)

(* discoverInstalled: the highest product version, the latest of equals.    *)
Discovered ==
    LET best == {i \in DOMAIN cache :
                    \A k \in DOMAIN cache : Version[cache[k]] <= Version[cache[i]]}
    IN  cache[CHOOSE i \in best : \A k \in best : k <= i]

(* quickValidateRecorded: every file of the slot is there and unchanged.    *)
Whole(b) == b # None /\ slot[b] = "whole"

(* validateRecordedCandidate also runs the binary, which may be late.       *)
Validations(b) ==
    IF ~Whole(b) THEN {FALSE} ELSE IF b \in Frail THEN BOOLEAN ELSE {TRUE}

(* canReuseState: the recorded runtime is the installed one.                *)
CanReuse == Whole(state.current) /\ Discovered = state.current

(* the plugin root of the process, unless it was deleted, and the installed *)
Sources(p) == ({Home[p]} \cap Installed) \cup {Discovered}

(* Mutant: a lease lock that sessions do not keep.                          *)
LeasedByThreads(b) == \E t \in leases : cand[t] = b

(* A slot is leased by an open session and by a thread that resolved it.    *)
Leased(b) ==
    \/ \E t \in leases : cand[t] = b
    \/ \E p \in Procs : \E i \in DOMAIN sessions[p] :
          sessions[p][i].open /\ sessions[p][i].bundle = b

MuFree(t) == mu[ProcOf[t]] = None
HasMu(t) == mu[ProcOf[t]] = t
Current(t) == current[ProcOf[t]]
CurrentBundle(t) ==
    IF Current(t) = 0 THEN None ELSE sessions[ProcOf[t]][Current(t)].bundle

Go(t, next) == pc' = [pc EXCEPT ![t] = next]
ReleaseMu(t) == mu' = [mu EXCEPT ![ProcOf[t]] = None]
ReleaseLease(t) == leases' = leases \ {t}
Forget(t) == cand' = [cand EXCEPT ![t] = None]

(* What follows an ensureSession, or a wait for the lock, that ended well   *)
(* or failed.                                                               *)
AfterEnsure(t) == IF Kind[t] = "monitor" THEN "idle" ELSE "pick"
AfterError(t) == IF Kind[t] = "monitor" THEN "idle" ELSE "done"

-----------------------------------------------------------------------------
(* The host installs plugins: a new version directory appears atomically,   *)
(* and the older ones may be deleted.                                       *)
HostInstalls ==
    /\ installs < MaxInstalls
    /\ \E b \in Bundles \ {Last(cache)}, keep \in BOOLEAN :
          /\ cache' = Append(IF keep THEN cache ELSE <<>>, b)
          /\ alias' = [alias EXCEPT ![b] = None]
    /\ installs' = installs + 1
    /\ UNCHANGED <<crashes, slot, state, lock, mu, proxy, pc, locals, leases, torn>>

(* A process starts from an installed plugin.  A proxy's monitor reads the  *)
(* fingerprint first; a command (runtime exec) resolves the slot its child  *)
(* will run from.                                                           *)
ProcessStarts(p) ==
    /\ Home[p] \in Installed
    /\ \A t \in Threads : ProcOf[t] = p => pc[t] = "off"
    /\ pc' = [t \in Threads |-> IF ProcOf[t] # p THEN pc[t]
                                ELSE IF Kind[t] = "exec" THEN "resolve" ELSE "idle"]
    /\ seen' = [seen EXCEPT ![p] = Installed]
    /\ UNCHANGED <<host, files, lock, mu, current, sessions, locals, leases, torn>>

(* A process ends or dies: its locks, leases and children go with it.       *)
Ends(p) ==
    LET mine == {t \in Threads : ProcOf[t] = p} IN
    /\ pc' = [t \in Threads |-> IF t \in mine THEN "dead" ELSE pc[t]]
    /\ leases' = leases \ mine
    /\ lock' = IF lock \in mine THEN None ELSE lock
    /\ torn' = IF lock \in mine THEN torn \cup {p} ELSE torn
    /\ mu' = [mu EXCEPT ![p] = None]
    /\ current' = [current EXCEPT ![p] = 0]
    /\ sessions' = [sessions EXCEPT ![p] = <<>>]
    /\ cand' = [t \in Threads |-> IF t \in mine THEN None ELSE cand[t]]
    /\ work' = [t \in Threads |-> IF t \in mine THEN {} ELSE work[t]]
    /\ restored' = [t \in Threads |-> IF t \in mine THEN None ELSE restored[t]]
    /\ conn' = [t \in Threads |-> IF t \in mine THEN 0 ELSE conn[t]]
    /\ seen' = [seen EXCEPT ![p] = {}]
    /\ UNCHANGED <<cache, installs, files>>

Crash(p) ==
    /\ crashes < MaxCrashes /\ crashes' = crashes + 1
    /\ \E t \in Threads : ProcOf[t] = p /\ pc[t] \notin {"off", "done", "dead"}
    /\ Ends(p)

-----------------------------------------------------------------------------
(* Tool calls, the monitor, commands.                                       *)

(* A call is counted on the session it will use while the mutex is held.    *)
Join(t) ==
    LET p == ProcOf[t] IN
    /\ sessions' = [sessions EXCEPT ![p][current[p]].calls = @ \cup {t}]
    /\ conn' = [conn EXCEPT ![t] = current[p]]
    /\ Go(t, "call")

(* Forward: join the current session, or ask for one first.                 *)
CallStarts(t) ==
    /\ Kind[t] = "call" /\ pc[t] = "idle" /\ MuFree(t)
    /\ IF Current(t) = 0
       THEN Go(t, "resolve") /\ UNCHANGED <<conn, sessions>>
       ELSE Join(t)
    /\ UNCHANGED <<host, files, lock, mu, current, seen, cand, work, restored,
                   leases, torn>>

(* Forward after ensureSession: the session may be gone again.              *)
CallPicks(t) ==
    /\ pc[t] = "pick" /\ MuFree(t)
    /\ IF Current(t) = 0
       THEN Go(t, "done") /\ UNCHANGED <<conn, sessions>>
       ELSE Join(t)
    /\ UNCHANGED <<host, files, lock, mu, current, seen, cand, work, restored,
                   leases, torn>>

CallAnswered(t) ==
    /\ pc[t] = "call"
    /\ Go(t, "drop")
    /\ UNCHANGED <<host, files, lock, mu, proxy, locals, leases, torn>>

(* releaseSession: the last call on a retired session will close it.        *)
CallDrops(t) ==
    /\ pc[t] = "drop" /\ MuFree(t)
    /\ LET p == ProcOf[t]
           left == sessions[p][conn[t]].calls \ {t} IN
       /\ sessions' = [sessions EXCEPT ![p][conn[t]].calls = left]
       /\ IF sessions[p][conn[t]].retired /\ left = {}
          THEN /\ cand' = [cand EXCEPT ![t] = CurrentBundle(t)]
               /\ Go(t, "close") /\ UNCHANGED conn
          ELSE /\ conn' = [conn EXCEPT ![t] = 0]
               /\ Go(t, "done") /\ UNCHANGED cand
    /\ UNCHANGED <<host, files, lock, mu, current, seen, work, restored,
                   leases, torn>>

(* Outside the mutex the session and its lease go, then the collector runs. *)
SessionCloses(t) ==
    /\ pc[t] = "close"
    /\ sessions' = [sessions EXCEPT ![ProcOf[t]][conn[t]].open = FALSE]
    /\ Go(t, IF cand[t] = None THEN "done" ELSE "prune")
    /\ UNCHANGED <<host, files, lock, mu, current, seen, locals, leases, torn>>

(* monitor: the installed versions are not what it saw last.                *)
MonitorWakes(t) ==
    /\ Kind[t] = "monitor" /\ pc[t] = "idle" /\ seen[ProcOf[t]] # Installed
    /\ seen' = [seen EXCEPT ![ProcOf[t]] = Installed]
    /\ Go(t, "resolve")
    /\ UNCHANGED <<host, files, lock, mu, current, sessions, locals, leases, torn>>

(* runtime exec: the child has run under the command's lease.               *)
CommandEnds(t) ==
    /\ pc[t] = "exec"
    /\ Go(t, "done") /\ ReleaseLease(t) /\ Forget(t)
    /\ UNCHANGED <<host, files, lock, mu, proxy, work, restored, conn, torn>>

(* Close: the task ended; calls on the session are cut off with it.         *)
ProxyCloses(t) ==
    /\ Kind[t] = "close" /\ pc[t] = "idle" /\ MuFree(t)
    /\ cand' = [cand EXCEPT ![t] = CurrentBundle(t)]
    /\ conn' = [conn EXCEPT ![t] = Current(t)]
    /\ current' = [current EXCEPT ![ProcOf[t]] = 0]
    /\ Go(t, IF Current(t) = 0 THEN "exit" ELSE "close")
    /\ UNCHANGED <<host, files, lock, mu, sessions, seen, work, restored, leases,
                   torn>>

ProxyExits(t) ==
    /\ pc[t] = "exit"
    /\ Ends(ProcOf[t])
    /\ UNCHANGED crashes

-----------------------------------------------------------------------------
(* Waiting for resolve.lock.                                                *)

Waiting == {"resolve", "again", "reject", "prune"}

AfterPrune(t) ==
    IF HasMu(t) THEN ReleaseMu(t) /\ Go(t, AfterEnsure(t))
    ELSE Go(t, IF Kind[t] = "close" THEN "exit" ELSE "done") /\ UNCHANGED mu

(* Mutant: the collector keeps what its caller holds, not what is recorded. *)
LockTakenForOwn(t) ==
    /\ pc[t] \in Waiting /\ lock = None
    /\ lock' = t
    /\ Go(t, CASE pc[t] \in {"resolve", "again"} -> "install"
               [] pc[t] = "reject" -> "rejecting"
               [] pc[t] = "prune" -> "collect")
    /\ work' = [work EXCEPT ![t] =
                  IF pc[t] = "prune"
                  THEN {b \in Bundles : slot[b] # "none"} \ {cand[t]} ELSE {}]
    /\ UNCHANGED <<host, files, mu, proxy, cand, restored, conn, leases, torn>>

LockTaken(t) ==
    /\ pc[t] \in Waiting /\ lock = None
    /\ lock' = t
    /\ Go(t, CASE pc[t] \in {"resolve", "again"} -> "install"
               [] pc[t] = "reject" -> "rejecting"
               [] pc[t] = "prune" -> "collect")
    /\ work' = [work EXCEPT ![t] =
                  IF pc[t] = "prune"
                  THEN {b \in Bundles : slot[b] # "none"} \ {state.current} ELSE {}]
    /\ UNCHANGED <<host, files, mu, proxy, cand, restored, conn, leases, torn>>

(* AcquireLock gives up after ten seconds, or with its context.             *)
LockTimesOut(t) ==
    /\ pc[t] \in Waiting /\ lock # None
    /\ Forget(t)
    /\ IF pc[t] = "prune" THEN AfterPrune(t)
       ELSE /\ IF HasMu(t) THEN ReleaseMu(t) ELSE UNCHANGED mu
            /\ Go(t, AfterError(t))
    /\ UNCHANGED <<host, files, lock, proxy, work, restored, conn, leases, torn>>

-----------------------------------------------------------------------------
(* resolveLocked, and the lease ResolveLeased takes before it unlocks.      *)

Leave(t, b) ==
    /\ cand' = [cand EXCEPT ![t] = b]
    /\ leases' = leases \cup {t}
    /\ lock' = None
    /\ Go(t, IF HasMu(t) THEN "restore"
             ELSE IF Kind[t] = "exec" THEN "exec" ELSE "enter")

RecordedReused(t) ==
    /\ pc[t] = "install" /\ CanReuse
    /\ Leave(t, state.current)
    /\ UNCHANGED <<host, files, mu, proxy, work, restored, conn, torn>>

(* replaceInvalidRuntimeSlot: an incomplete slot is renamed away first.     *)
SlotMovedAside(t) ==
    /\ pc[t] = "install" /\ ~CanReuse
    /\ \E b \in Sources(ProcOf[t]) :
          slot[b] = "partial" /\ slot' = [slot EXCEPT ![b] = "none"]
    /\ UNCHANGED <<host, alias, state, lock, mu, proxy, pc, locals, leases, torn>>

(* installCandidate of the fallback and of the installed bundle: a valid    *)
(* source is staged and renamed into a free slot; what validates afterwards *)
(* may be selected.                                                         *)
SourcesInstalled(t) ==
    /\ pc[t] = "install" /\ ~CanReuse
    /\ \E valid \in SUBSET Sources(ProcOf[t]) :
          /\ Sources(ProcOf[t]) \ Frail \subseteq valid
          /\ slot' = [b \in Bundles |->
                        IF b \in valid /\ slot[b] = "none" THEN "whole" ELSE slot[b]]
          /\ \E late \in SUBSET (valid \cap Frail) :
                work' = [work EXCEPT ![t] =
                           {b \in valid : slot'[b] = "whole"} \ late]
    /\ Go(t, "choose")
    /\ UNCHANGED <<host, alias, state, lock, mu, proxy, cand, restored, conn,
                   leases, torn>>

(* acceptInstalled: never an older product than a usable recorded one.      *)
AcceptInstalled(b, usable) == usable => Version[b] >= Version[state.current]

(* The candidates resolveLocked chooses from, best first; the last is taken *)
(* only if there is no other.                                               *)
Selection(t, recorded, accepted) ==
    LET p == ProcOf[t]
        installed == Discovered \in work[t]
    IN  IF installed /\ Discovered # state.rejected /\ accepted THEN Discovered
        ELSE IF recorded THEN state.current
        ELSE IF installed THEN Discovered
        ELSE IF Home[p] \in work[t] THEN Home[p]
        ELSE None

(* The rollback target that goes with a selection.                          *)
RollbackFor(t, b, recorded, previous) ==
    IF recorded /\ state.current # b THEN state.current
    ELSE IF Home[ProcOf[t]] \in work[t] /\ Home[ProcOf[t]] # b THEN Home[ProcOf[t]]
    ELSE IF previous THEN state.previous
    ELSE None

CandidateChosen(t) ==
    /\ pc[t] = "choose"
    /\ \E recorded, again \in Validations(state.current),
          previous \in Validations(state.previous) :
       LET b == Selection(t, recorded, AcceptInstalled(Discovered, again)) IN
       IF b = None
       THEN /\ lock' = None /\ Go(t, AfterError(t))
            /\ IF HasMu(t) THEN ReleaseMu(t) ELSE UNCHANGED mu
            /\ UNCHANGED <<state, cand, leases>>
       ELSE /\ state' = IF b = state.current THEN state ELSE
                 [current |-> b,
                  previous |-> RollbackFor(t, b, recorded, previous),
                  rejected |-> IF b = state.rejected THEN b ELSE None]
            /\ Leave(t, b) /\ UNCHANGED mu
    /\ work' = [work EXCEPT ![t] = {}]
    /\ UNCHANGED <<host, slot, alias, proxy, restored, conn, torn>>

-----------------------------------------------------------------------------
(* ensureSession, under the proxy's mutex.                                  *)

MuTaken(t) ==
    /\ pc[t] = "enter" /\ MuFree(t)
    /\ mu' = [mu EXCEPT ![ProcOf[t]] = t]
    /\ Go(t, "ensure")
    /\ UNCHANGED <<host, files, lock, proxy, locals, leases, torn>>

(* PreserveDeletedHostRoot: every managed link, and the plugin root if its  *)
(* directory is gone, points to the candidate.                              *)
HostRootPreserved(t) ==
    alias' = [b \in Bundles |->
                IF alias[b] # None \/ (b = Home[ProcOf[t]] /\ b \notin Installed)
                THEN cand[t] ELSE None]

(* The stable catalogue is the one compiled into the proxy itself.          *)
ContractHolds(t) == Catalog[cand[t]] = Catalog[Home[ProcOf[t]]]

(* Mutant: an idle session is retired and left to its last call.            *)
SessionLeftOpen(t) ==
    LET p == ProcOf[t]
        old == [s \in DOMAIN sessions[p] |->
                  IF s # current[p] THEN sessions[p][s]
                  ELSE [sessions[p][s] EXCEPT !.retired = TRUE]]
        new == [bundle |-> cand[t], calls |-> {}, retired |-> FALSE, open |-> TRUE] IN
    /\ sessions' = [sessions EXCEPT ![p] = Append(old, new)]
    /\ current' = [current EXCEPT ![p] = Len(old) + 1]
    /\ ReleaseLease(t)
    /\ Go(t, "prune")

(* The old session is retired, and closed if no call runs on it; the new    *)
(* one takes the lease over.                                                *)
SessionSwitched(t) ==
    LET p == ProcOf[t]
        old == [s \in DOMAIN sessions[p] |->
                  IF s # current[p] THEN sessions[p][s]
                  ELSE [sessions[p][s] EXCEPT !.retired = TRUE,
                                              !.open = sessions[p][s].calls # {}]]
        new == [bundle |-> cand[t], calls |-> {}, retired |-> FALSE, open |-> TRUE] IN
    /\ sessions' = [sessions EXCEPT ![p] = Append(old, new)]
    /\ current' = [current EXCEPT ![p] = Len(old) + 1]
    /\ ReleaseLease(t)
    /\ Go(t, "prune")

AlreadyCurrent(t) ==
    /\ pc[t] = "ensure" /\ CurrentBundle(t) = cand[t]
    /\ ReleaseLease(t) /\ ReleaseMu(t) /\ Go(t, AfterEnsure(t)) /\ Forget(t)
    /\ UNCHANGED <<host, files, lock, proxy, work, restored, conn, torn>>

(* connectValidated of the resolved candidate: the child answers its tools, *)
(* the host root is preserved and the catalogues agree.                     *)
CandidateConnects(t) ==
    /\ pc[t] = "ensure" /\ CurrentBundle(t) # cand[t]
    /\ HostRootPreserved(t)
    /\ ContractHolds(t)
    /\ SessionSwitched(t)
    /\ UNCHANGED <<host, slot, state, lock, mu, seen, locals, torn>>

(* errHostContractChanged: a proxy with a session keeps it.                 *)
ContractDiffers(t) ==
    /\ pc[t] = "ensure" /\ CurrentBundle(t) # cand[t]
    /\ HostRootPreserved(t)
    /\ ~ContractHolds(t)
    /\ ReleaseLease(t)
    /\ IF Current(t) = 0
       THEN Go(t, "reject") /\ UNCHANGED mu
       ELSE ReleaseMu(t) /\ Go(t, AfterEnsure(t))
    /\ UNCHANGED <<host, slot, state, lock, proxy, locals, torn>>

(* The child does not start or answer, or the host root cannot be kept.     *)
CandidateFails(t) ==
    /\ pc[t] = "ensure" /\ CurrentBundle(t) # cand[t] /\ cand[t] \in Frail
    /\ ReleaseLease(t)
    /\ Go(t, "reject")
    /\ UNCHANGED <<host, files, lock, mu, proxy, locals, torn>>

(* Reject: back to the previous runtime, unless another process has moved   *)
(* on from the rejected one.                                                *)
Rejected(t) ==
    /\ pc[t] = "rejecting"
    /\ lock' = None
    /\ \E usable \in Validations(state.previous) :
       LET back == IF state.current # cand[t] THEN state.current
                   ELSE IF usable THEN state.previous ELSE None IN
       /\ state' = IF state.current # cand[t] \/ ~usable THEN state ELSE
                   [current |-> back, previous |-> None, rejected |-> cand[t]]
       /\ CASE back = None -> ReleaseMu(t) /\ Go(t, AfterError(t)) /\ UNCHANGED restored
            [] back # None /\ back = CurrentBundle(t) ->
                  ReleaseMu(t) /\ Go(t, AfterEnsure(t)) /\ UNCHANGED restored
            [] OTHER -> /\ Go(t, "again") /\ UNCHANGED mu
                        /\ restored' = [restored EXCEPT ![t] = back]
    /\ UNCHANGED <<host, slot, alias, proxy, cand, work, conn, leases, torn>>

(* The restored runtime is resolved again and must still be the one.        *)
RestoredConnects(t) ==
    /\ pc[t] = "restore" /\ cand[t] = restored[t] /\ ContractHolds(t)
    /\ SessionSwitched(t)
    /\ restored' = [restored EXCEPT ![t] = None]
    /\ UNCHANGED <<host, files, lock, mu, seen, cand, work, conn, torn>>

(* Mutant: an error return that leaves the mutex locked.                    *)
RestoredFailsLocked(t) ==
    /\ pc[t] = "restore"
    /\ cand[t] # restored[t] \/ ~ContractHolds(t) \/ cand[t] \in Frail
    /\ ReleaseLease(t) /\ Go(t, AfterError(t))
    /\ restored' = [restored EXCEPT ![t] = None] /\ Forget(t)
    /\ UNCHANGED <<host, files, lock, mu, proxy, work, conn, torn>>

(* It is another one, it does not start, or its contract differs.           *)
RestoredFails(t) ==
    /\ pc[t] = "restore"
    /\ cand[t] # restored[t] \/ ~ContractHolds(t) \/ cand[t] \in Frail
    /\ ReleaseLease(t) /\ ReleaseMu(t) /\ Go(t, AfterError(t))
    /\ restored' = [restored EXCEPT ![t] = None] /\ Forget(t)
    /\ UNCHANGED <<host, files, lock, proxy, work, conn, torn>>

-----------------------------------------------------------------------------
(* PruneObsoleteRuntimes, under resolve.lock.                               *)

(* A slot whose lease another process shares is passed over.                *)
SlotKept(t) ==
    /\ pc[t] = "collect"
    /\ \E b \in work[t] :
          Leased(b) /\ work' = [work EXCEPT ![t] = @ \ {b}]
    /\ UNCHANGED <<host, files, lock, mu, proxy, pc, cand, restored, conn,
                   leases, torn>>

(* RemoveAll takes the files of a slot one after the other.                 *)
SlotRemoved(t) ==
    /\ pc[t] = "collect"
    /\ \E b \in work[t], left \in {"partial", "wreck", "none"} :
          /\ ~Leased(b)
          /\ left = "partial" => slot[b] = "whole"
          /\ left = "wreck" => slot[b] \in {"whole", "partial"}
          /\ slot' = [slot EXCEPT ![b] = left]
          /\ work' = [work EXCEPT ![t] = IF left = "none" THEN @ \ {b} ELSE @]
    /\ UNCHANGED <<host, alias, state, lock, mu, proxy, pc, cand, restored, conn,
                   leases, torn>>

(* Mutant: the slot goes and the rollback target stays recorded.            *)
CollectedOnly(t) ==
    /\ pc[t] = "collect" /\ work[t] = {}
    /\ lock' = None
    /\ AfterPrune(t) /\ Forget(t)
    /\ UNCHANGED <<host, files, proxy, work, restored, conn, leases, torn>>

(* The rollback target goes with its slot.                                  *)
Collected(t) ==
    /\ pc[t] = "collect" /\ work[t] = {}
    /\ state' = [state EXCEPT !.previous = None]
    /\ lock' = None
    /\ AfterPrune(t) /\ Forget(t)
    /\ UNCHANGED <<host, slot, alias, proxy, work, restored, conn, leases, torn>>

-----------------------------------------------------------------------------
Init ==
    /\ cache \in {<<Home[p]>> : p \in Procs} /\ installs = 0 /\ crashes = 0
    /\ slot = [b \in Bundles |-> IF b \in Leftover THEN "partial" ELSE "none"]
    /\ alias = [b \in Bundles |-> None]
    /\ state = [current |-> None, previous |-> None, rejected |-> None]
    /\ lock = None /\ mu = [p \in Procs |-> None]
    /\ current = [p \in Procs |-> 0]
    /\ sessions = [p \in Procs |-> <<>>]
    /\ seen = [p \in Procs |-> {}]
    /\ pc = [t \in Threads |-> "off"]
    /\ cand = [t \in Threads |-> None]
    /\ leases = {}
    /\ work = [t \in Threads |-> {}]
    /\ restored = [t \in Threads |-> None]
    /\ conn = [t \in Threads |-> 0]
    /\ torn = {}

(* What a thread does by itself once it has started.                        *)
ThreadStep(t) ==
    \/ CallPicks(t) \/ CallAnswered(t) \/ CallDrops(t) \/ SessionCloses(t)
    \/ CommandEnds(t) \/ ProxyExits(t)
    \/ LockTaken(t) \/ LockTimesOut(t)
    \/ RecordedReused(t) \/ SlotMovedAside(t) \/ SourcesInstalled(t)
    \/ CandidateChosen(t)
    \/ MuTaken(t) \/ AlreadyCurrent(t) \/ CandidateConnects(t)
    \/ ContractDiffers(t) \/ CandidateFails(t)
    \/ Rejected(t) \/ RestoredConnects(t) \/ RestoredFails(t)
    \/ SlotKept(t) \/ SlotRemoved(t) \/ Collected(t)

Starts(t) == CallStarts(t) \/ MonitorWakes(t) \/ ProxyCloses(t)

Next == \/ HostInstalls
        \/ \E t \in Threads : Starts(t) \/ ThreadStep(t)
        \/ \E p \in Procs : ProcessStarts(p) \/ Crash(p)

Spec == Init /\ [][Next]_vars
FairSpec == Spec /\ WF_vars(\E t \in Threads : ThreadStep(t))

-----------------------------------------------------------------------------
Places == {"off", "idle", "call", "drop", "close", "pick", "exec", "exit",
           "install", "rejecting", "collect", "choose", "enter", "ensure",
           "restore", "done", "dead"} \cup Waiting
Session == [bundle : Bundles, calls : SUBSET Threads,
            retired : BOOLEAN, open : BOOLEAN]

(* Every variable has its type; a mutex is held by a thread of its own      *)
(* proxy, and a current session is one the proxy has opened.                *)
TypeOK ==
    /\ cache \in Seq(Bundles) /\ cache # <<>> /\ installs \in 0..MaxInstalls
    /\ crashes \in 0..MaxCrashes
    /\ slot \in [Bundles -> {"none", "partial", "wreck", "whole"}]
    /\ alias \in [Bundles -> Bundles \cup {None}]
    /\ state \in [current : Bundles \cup {None}, previous : Bundles \cup {None},
                  rejected : Bundles \cup {None}]
    /\ lock \in Threads \cup {None}
    /\ pc \in [Threads -> Places]
    /\ cand \in [Threads -> Bundles \cup {None}] /\ leases \subseteq Threads
    /\ work \in [Threads -> SUBSET Bundles]
    /\ restored \in [Threads -> Bundles \cup {None}]
    /\ torn \subseteq Procs
    /\ \A p \in Procs :
          /\ mu[p] \in {t \in Threads : ProcOf[t] = p} \cup {None}
          /\ sessions[p] \in Seq(Session) /\ current[p] \in 0..Len(sessions[p])
          /\ seen[p] \subseteq Bundles
    /\ \A t \in Threads : conn[t] \in 0..Len(sessions[ProcOf[t]])

(* Whoever runs, connects to or has just resolved a runtime finds its slot  *)
(* complete until it lets go, whatever other processes install, switch to,  *)
(* roll back or collect, and wherever they die (ResolveLeased leases before *)
(* it unlocks; PruneObsoleteRuntimes tries the exclusive lease).            *)
LeasedSlotsExist ==
    /\ \A t \in leases : slot[cand[t]] = "whole"
    /\ \A p \in Procs : \A i \in DOMAIN sessions[p] :
          sessions[p][i].open => slot[sessions[p][i].bundle] = "whole"

(* What state.json names can be run.  The current runtime: at any moment   *)
(* and after any crash, since the collector spares the recorded runtime,    *)
(* not the one the caller happened to hold.  The rollback target: while     *)
(* nobody collects, unless a collector died between slot and state file.    *)
RecordedIsUsable ==
    /\ state.current # None => slot[state.current] = "whole"
    /\ (state.previous # None /\ torn = {} /\ \A t \in Threads : pc[t] # "collect")
          => slot[state.previous] = "whole"

(* Every runtime that is named by a lease, an open session or the state    *)
(* file is there to be run.                                                *)
NamedSlotsExist == TypeOK /\ LeasedSlotsExist /\ RecordedIsUsable

(* A switch cuts no call and leaks no session: a retired session is open    *)
(* exactly while a call runs on it or its last call is about to close it,   *)
(* and a proxy's current session is neither retired nor closed.             *)
RetiredSessionsDrain ==
    \A p \in Procs :
        /\ current[p] # 0 => /\ sessions[p][current[p]].open
                             /\ ~sessions[p][current[p]].retired
        /\ \A i \in DOMAIN sessions[p] :
              sessions[p][i].retired =>
                 (sessions[p][i].open <=>
                     \/ sessions[p][i].calls # {}
                     \/ \E t \in Threads : ProcOf[t] = p /\ pc[t] = "close"
                                             /\ conn[t] = i)

(* Every call, command and close that has started ends, through rollbacks,  *)
(* lock timeouts and the mutex held across them, unless its process dies:   *)
(* nobody is left waiting.                                                  *)
EveryCallEnds ==
    <>[](\A t \in Threads : Kind[t] # "monitor" =>
            pc[t] \in {"off", "idle", "done", "dead"})
=============================================================================
