--------------------------- MODULE RequestControl ---------------------------
(***************************************************************************)
(* What stands between a call of a command and the platform.  A call takes *)
(* a slot of its authorization, then one of its endpoint family; a paced   *)
(* call (Qianchuan, advertiser scoped) then takes the lock file of its     *)
(* advertiser, sleeps out the interval and the cooldown that the state     *)
(* file beside it records, and keeps the lock until the body of its answer *)
(* is closed; at last it reserves an attempt of the command's budget.      *)
(* Reads are retried, writes are not: Attempts says how often a call may   *)
(* be sent.                                                                *)
(*                                                                         *)
(* The times in the state file are modelled as the time left until them,   *)
(* in ticks.  A retry comes after any delay; the gate does not rely on it. *)
(***************************************************************************)
EXTENDS Integers, FiniteSets

CONSTANTS
    Calls,
    Commands,      \* processes, each with a budget and a governor of its own
    Scopes,        \* authorization scopes, each of one command
    Families,      \* endpoint families, each of one scope
    Advertisers,
    CommandOf, ScopeOf, FamilyOf, AdvertiserOf,
    Paced,         \* calls under the shared Qianchuan control
    Attempts,      \* 1 + the number of retry delays of each call
    ScopeSlots, FamilySlots,
    Limit,         \* budget of a command
    Interval, DefaultCooldown,
    RetryAfters,   \* Retry-After values, at most qianchuanMaximumRetryAfter
    None

ASSUME MappingAssumption ==
    /\ CommandOf \in [Calls -> Commands] /\ AdvertiserOf \in [Calls -> Advertisers]
    /\ ScopeOf \in [Calls -> Scopes] /\ FamilyOf \in [Calls -> Families]
    /\ \A c, d \in Calls : /\ FamilyOf[c] = FamilyOf[d] => ScopeOf[c] = ScopeOf[d]
                           /\ ScopeOf[c] = ScopeOf[d] => CommandOf[c] = CommandOf[d]
ASSUME LimitAssumption ==
    /\ Paced \subseteq Calls /\ Attempts \in [Calls -> Nat \ {0}]
    /\ ScopeSlots \in Nat \ {0} /\ FamilySlots \in Nat \ {0} /\ Limit \in [Commands -> Nat]
    /\ Interval \in Nat /\ DefaultCooldown \in Nat /\ RetryAfters \subseteq Nat
ASSUME NoneAssumption == None \notin Calls
ASSUME FiniteAssumption == IsFiniteSet(Calls)

Cooldowns == {DefaultCooldown} \cup {t \in RetryAfters : t > DefaultCooldown}
Outcomes == {"ok", "limited", "timeout", "error"}

VARIABLES
    phase,     \* where each call stands
    attempt,   \* attempts a call has begun
    outcome,   \* the answer whose body a call has yet to close
    wait,      \* ticks a call at the gate has left to sleep; then the cooldown its answer demands
    seen,      \* the budget use a reservation loaded
    scopeUse, familyUse,   \* the governor's semaphores
    holder,    \* holder of each advertiser's lock file
    file,      \* each advertiser's state file: ticks left
    used,      \* budget used by each command
    \* history
    sent,      \* requests each command has sent
    since,     \* ticks since a call last passed each gate, up to Interval
    owed       \* ticks until the cooldowns that answers demanded are over

slots == <<scopeUse, familyUse>>
gate == <<holder, file, since>>
vars == <<phase, attempt, outcome, wait, seen, slots, gate, used, sent, owed>>

Waiting == {"scope", "family", "lock", "gate"}
InFlight == {"sent", "answered"}
Ended == {"done", "failed", "dead"}
Phases == {"idle", "reserve", "swap", "send", "backoff"} \cup Waiting \cup InFlight \cup Ended

(* what a call holds in each phase                                         *)
HoldsFamily(c) == phase[c] \in {"lock", "gate", "reserve", "swap", "send"} \cup InFlight
HoldsScope(c) == phase[c] = "family" \/ HoldsFamily(c)
HoldsLock(c) == c \in Paced /\ phase[c] \in {"gate", "reserve", "swap", "send"} \cup InFlight

Longer(x, y) == IF x > y THEN x ELSE y
Less(n) == IF n > 0 THEN n - 1 ELSE 0
Count(b) == IF b THEN 1 ELSE 0
Goto(c, p) == phase' = [phase EXCEPT ![c] = p]

-----------------------------------------------------------------------------
(* The end of an attempt: the lock file, then the endpoint slot and the    *)
(* authorization slot are released; retry.Do then ends the call or waits.  *)

(* Mutant: the release function given twice (no sync.Once).                *)
ReleaseSlotsTwice(c) ==
    /\ scopeUse' = [scopeUse EXCEPT ![ScopeOf[c]] = @ - 2 * Count(HoldsScope(c))]
    /\ familyUse' = [familyUse EXCEPT ![FamilyOf[c]] = @ - Count(HoldsFamily(c))]

(* Mutant: a cancelled wait for the endpoint slot keeps the authorization slot.*)
ReleaseBothSlots(c) ==
    /\ scopeUse' = [scopeUse EXCEPT ![ScopeOf[c]] = @ - Count(HoldsFamily(c))]
    /\ familyUse' = [familyUse EXCEPT ![FamilyOf[c]] = @ - Count(HoldsFamily(c))]

ReleaseSlots(c) ==
    /\ scopeUse' = [scopeUse EXCEPT ![ScopeOf[c]] = @ - Count(HoldsScope(c))]
    /\ familyUse' = [familyUse EXCEPT ![FamilyOf[c]] = @ - Count(HoldsFamily(c))]

(* Mutant: no release when the request failed.                             *)
ReleaseLockAfterAnswer(c) ==
    holder' = IF HoldsLock(c) /\ outcome[c] # "error"
              THEN [holder EXCEPT ![AdvertiserOf[c]] = None] ELSE holder

ReleaseLock(c) ==
    holder' = IF HoldsLock(c) THEN [holder EXCEPT ![AdvertiserOf[c]] = None] ELSE holder

After(c, retryable) ==
    IF retryable /\ attempt[c] < Attempts[c] THEN "backoff" ELSE "failed"

FailAttempt(c, retryable) ==
    /\ Goto(c, After(c, retryable)) /\ ReleaseSlots(c) /\ ReleaseLock(c)
    /\ wait' = [wait EXCEPT ![c] = 0]
    /\ UNCHANGED <<attempt, outcome, file, since, used, sent, owed>>

-----------------------------------------------------------------------------
(* RoundTrip                                                               *)

Begin(c) ==
    /\ phase[c] \in {"idle", "backoff"}
    /\ attempt' = [attempt EXCEPT ![c] = @ + 1]
    /\ Goto(c, "scope")
    /\ UNCHANGED <<outcome, wait, seen, slots, gate, used, sent, owed>>

AcquireScope(c) ==
    /\ phase[c] = "scope" /\ scopeUse[ScopeOf[c]] < ScopeSlots
    /\ scopeUse' = [scopeUse EXCEPT ![ScopeOf[c]] = @ + 1]
    /\ Goto(c, "family")
    /\ UNCHANGED <<attempt, outcome, wait, seen, familyUse, gate, used, sent, owed>>

AcquireFamily(c) ==
    /\ phase[c] = "family" /\ familyUse[FamilyOf[c]] < FamilySlots
    /\ familyUse' = [familyUse EXCEPT ![FamilyOf[c]] = @ + 1]
    /\ Goto(c, IF c \in Paced THEN "lock" ELSE "reserve")
    /\ UNCHANGED <<attempt, outcome, wait, seen, scopeUse, gate, used, sent, owed>>

(* The state is read under the lock, so the sleep can be computed with it. *)
(* Mutant: a gate that looks at the interval only.                         *)
WaitForInterval(a) == file[a].next

WaitAt(a) == Longer(file[a].next, file[a].cooldown)

AcquireLock(c) ==
    /\ phase[c] = "lock" /\ holder[AdvertiserOf[c]] = None
    /\ holder' = [holder EXCEPT ![AdvertiserOf[c]] = c]
    /\ wait' = [wait EXCEPT ![c] = WaitAt(AdvertiserOf[c])]
    /\ Goto(c, "gate")
    /\ UNCHANGED <<attempt, outcome, seen, slots, file, since, used, sent, owed>>

(* Mutant: the stamp only kept in memory.                                  *)
StampedUnsaved(a) == file

Stamped(a) == [file EXCEPT ![a] = [next |-> Interval, cooldown |-> file[a].cooldown]]

PassGate(c) ==
    /\ phase[c] = "gate" /\ wait[c] = 0
    /\ file' = Stamped(AdvertiserOf[c])
    /\ since' = [since EXCEPT ![AdvertiserOf[c]] = 0]
    /\ Goto(c, "reserve")
    /\ UNCHANGED <<attempt, outcome, wait, seen, slots, holder, used, sent, owed>>

(* A wait is cancelled, or the client's timeout fires, or the lock file is *)
(* not had in time, or the state file cannot be read or written: nothing   *)
(* is sent.  Only the client's timeout counts as worth a retry.            *)
GiveUp(c) ==
    /\ phase[c] \in Waiting
    /\ \E retryable \in BOOLEAN : FailAttempt(c, retryable)
    /\ UNCHANGED seen

StopRetrying(c) ==
    /\ phase[c] = "backoff" /\ Goto(c, "failed")
    /\ UNCHANGED <<attempt, outcome, wait, seen, slots, gate, used, sent, owed>>

(* Budget.Reserve: a load, then a compare-and-swap, until it succeeds.     *)
LoadBudget(c) ==
    /\ phase[c] = "reserve" /\ used[CommandOf[c]] < Limit[CommandOf[c]]
    /\ seen' = [seen EXCEPT ![c] = used[CommandOf[c]]]
    /\ Goto(c, "swap")
    /\ UNCHANGED <<attempt, outcome, wait, slots, gate, used, sent, owed>>

BudgetSpent(c) ==
    /\ phase[c] = "reserve" /\ used[CommandOf[c]] >= Limit[CommandOf[c]]
    /\ FailAttempt(c, FALSE)
    /\ UNCHANGED seen

(* Mutant: a store instead of the compare-and-swap.                        *)
StoreBudget(c) ==
    /\ phase[c] = "swap"
    /\ used' = [used EXCEPT ![CommandOf[c]] = seen[c] + 1] /\ Goto(c, "send")
    /\ seen' = [seen EXCEPT ![c] = 0]
    /\ UNCHANGED <<attempt, outcome, wait, slots, gate, sent, owed>>

SwapBudget(c) ==
    LET p == CommandOf[c] IN
    /\ phase[c] = "swap"
    /\ IF used[p] = seen[c]
       THEN used' = [used EXCEPT ![p] = seen[c] + 1] /\ Goto(c, "send")
       ELSE used' = used /\ Goto(c, "reserve")
    /\ seen' = [seen EXCEPT ![c] = 0]
    /\ UNCHANGED <<attempt, outcome, wait, slots, gate, sent, owed>>

Send(c) ==
    /\ phase[c] = "send" /\ Goto(c, "sent")
    /\ sent' = [sent EXCEPT ![CommandOf[c]] = @ + 1]
    /\ UNCHANGED <<attempt, outcome, wait, seen, slots, gate, used, owed>>

-----------------------------------------------------------------------------
(* Answers                                                                 *)

(* The platform answers, or the client's timeout or the network ends the   *)
(* request.  "limited" is status 429 or business code 40100; the latter is *)
(* only known once the body has been read.                                 *)
Throttles(c, o) == o = "limited" /\ c \in Paced

(* Mutant: the shared control released when the headers arrive.            *)
AnswerReleased(c) ==
    /\ phase[c] = "sent" /\ Goto(c, "answered")
    /\ \E o \in Outcomes : outcome' = [outcome EXCEPT ![c] = o]
    /\ ReleaseLock(c)
    /\ UNCHANGED <<attempt, wait, seen, slots, file, since, used, sent, owed>>

Answer(c) ==
    /\ phase[c] = "sent" /\ Goto(c, "answered")
    /\ \E o \in Outcomes :
          /\ outcome' = [outcome EXCEPT ![c] = o]
          /\ \E t \in IF Throttles(c, o) THEN Cooldowns ELSE {0} :
                /\ wait' = [wait EXCEPT ![c] = t]
                /\ owed' = [owed EXCEPT ![AdvertiserOf[c]] = Longer(@, t)]
    /\ UNCHANGED <<attempt, seen, slots, gate, used, sent>>

Settle(c) ==
    IF outcome[c] = "ok" THEN "done" ELSE After(c, outcome[c] \in {"limited", "timeout"})

(* The release function run when the body is closed (or there is none):    *)
(* the cooldown is written before the lock is released.  The write may     *)
(* fail; the lock is released all the same and the cooldown is lost.       *)
Cooled(c) ==
    LET a == AdvertiserOf[c] IN
    IF Throttles(c, outcome[c])
    THEN [file EXCEPT ![a] = [next |-> file[a].next, cooldown |-> Longer(file[a].cooldown, wait[c])]]
    ELSE file

Close(c) ==
    /\ phase[c] = "answered"
    /\ file' = Cooled(c) /\ owed' = owed
    /\ Goto(c, Settle(c)) /\ ReleaseSlots(c) /\ ReleaseLock(c)
    /\ wait' = [wait EXCEPT ![c] = 0] /\ outcome' = [outcome EXCEPT ![c] = "ok"]
    /\ UNCHANGED <<attempt, seen, since, used, sent>>

CloseUnsaved(c) ==
    /\ phase[c] = "answered" /\ Throttles(c, outcome[c])
    /\ owed' = [owed EXCEPT ![AdvertiserOf[c]] = 0]
    /\ \E p \in {"failed", Settle(c)} : Goto(c, p)
    /\ ReleaseSlots(c) /\ ReleaseLock(c)
    /\ wait' = [wait EXCEPT ![c] = 0] /\ outcome' = [outcome EXCEPT ![c] = "ok"]
    /\ UNCHANGED <<attempt, seen, file, since, used, sent>>

-----------------------------------------------------------------------------
(* The process of a command dies: its locks go with it, and a cooldown     *)
(* that one of its calls was about to write is lost.                       *)
Crash(p) ==
    LET mine == {c \in Calls : CommandOf[c] = p}
        dropped == {AdvertiserOf[c] : c \in {d \in mine : HoldsLock(d)}}
    IN  /\ \E c \in mine : phase[c] \notin Ended \cup {"idle"}
        /\ phase' = [c \in Calls |-> IF c \in mine THEN "dead" ELSE phase[c]]
        /\ holder' = [a \in Advertisers |-> IF a \in dropped THEN None ELSE holder[a]]
        /\ owed' = [a \in Advertisers |->
                       IF \E c \in mine : AdvertiserOf[c] = a /\ phase[c] = "answered" /\ Throttles(c, outcome[c])
                       THEN 0 ELSE owed[a]]
        /\ wait' = [c \in Calls |-> IF c \in mine THEN 0 ELSE wait[c]]
        /\ seen' = [c \in Calls |-> IF c \in mine THEN 0 ELSE seen[c]]
        /\ outcome' = [c \in Calls |-> IF c \in mine THEN "ok" ELSE outcome[c]]
        /\ scopeUse' = [s \in Scopes |-> IF \E c \in mine : ScopeOf[c] = s THEN 0 ELSE scopeUse[s]]
        /\ familyUse' = [f \in Families |-> IF \E c \in mine : FamilyOf[c] = f THEN 0 ELSE familyUse[f]]
        /\ UNCHANGED <<attempt, file, since, used, sent>>

Sleeping(c) == phase[c] = "gate" /\ wait[c] > 0

Tick ==
    /\ \E a \in Advertisers : WaitAt(a) > 0 \/ since[a] < Interval \/ owed[a] > 0
    /\ file' = [a \in Advertisers |-> [next |-> Less(file[a].next), cooldown |-> Less(file[a].cooldown)]]
    /\ wait' = [c \in Calls |-> IF Sleeping(c) THEN wait[c] - 1 ELSE wait[c]]
    /\ since' = [a \in Advertisers |-> IF since[a] < Interval THEN since[a] + 1 ELSE since[a]]
    /\ owed' = [a \in Advertisers |-> Less(owed[a])]
    /\ UNCHANGED <<phase, attempt, outcome, seen, slots, holder, used, sent>>

-----------------------------------------------------------------------------
Init ==
    /\ phase = [c \in Calls |-> "idle"] /\ attempt = [c \in Calls |-> 0]
    /\ outcome = [c \in Calls |-> "ok"] /\ wait = [c \in Calls |-> 0]
    /\ seen = [c \in Calls |-> 0]
    /\ scopeUse = [s \in Scopes |-> 0] /\ familyUse = [f \in Families |-> 0]
    /\ holder = [a \in Advertisers |-> None]
    /\ file = [a \in Advertisers |-> [next |-> 0, cooldown |-> 0]]
    /\ used = [p \in Commands |-> 0] /\ sent = [p \in Commands |-> 0]
    /\ since = [a \in Advertisers |-> Interval] /\ owed = [a \in Advertisers |-> 0]

CallStep(c) ==
    \/ Begin(c) \/ AcquireScope(c) \/ AcquireFamily(c) \/ AcquireLock(c) \/ PassGate(c)
    \/ LoadBudget(c) \/ BudgetSpent(c) \/ SwapBudget(c) \/ Send(c) \/ Answer(c) \/ Close(c)

Next ==
    \/ \E c \in Calls : CallStep(c) \/ GiveUp(c) \/ StopRetrying(c) \/ CloseUnsaved(c)
    \/ \E p \in Commands : Crash(p)
    \/ Tick

Spec == Init /\ [][Next]_vars

(* Goroutines are scheduled, sleeping ends, and the client's timeout ends  *)
(* a request the platform never answers.  No wait has to be given up.      *)
FairSpec == Spec /\ WF_vars(Tick) /\ \A c \in Calls : WF_vars(CallStep(c))
-----------------------------------------------------------------------------
(* Properties                                                              *)

(* Every variable stays in its range; no semaphore goes below zero or      *)
(* above its capacity.                                                     *)
TypeOK ==
    /\ phase \in [Calls -> Phases] /\ outcome \in [Calls -> Outcomes]
    /\ attempt \in [Calls -> Nat] /\ wait \in [Calls -> Nat] /\ seen \in [Calls -> Nat]
    /\ \A c \in Calls : attempt[c] <= Attempts[c]
    /\ scopeUse \in [Scopes -> 0..ScopeSlots] /\ familyUse \in [Families -> 0..FamilySlots]
    /\ holder \in [Advertisers -> Paced \cup {None}]
    /\ file \in [Advertisers -> [next : Nat, cooldown : Nat]]
    /\ used \in [Commands -> Nat] /\ sent \in [Commands -> Nat]
    /\ since \in [Advertisers -> 0..Interval] /\ owed \in [Advertisers -> Nat]

(* One request of an advertiser is under way at a time, over all commands  *)
(* and up to the closing of its answer's body: the lock file is held from  *)
(* the gate to the close (client.go:244-280).                              *)
OneRequestAtATime ==
    \A c, d \in Paced :
        AdvertiserOf[c] = AdvertiserOf[d] /\ {phase[c], phase[d]} \subseteq InFlight => c = d

(* The governor's semaphores count exactly the calls that hold them: none  *)
(* is leaked by a wait that is cancelled halfway, a spent budget, a failed *)
(* save or a retry, and none is given back twice (control.go:342-365).     *)
SlotsMatchHolders ==
    /\ \A s \in Scopes : scopeUse[s] = Cardinality({c \in Calls : ScopeOf[c] = s /\ HoldsScope(c)})
    /\ \A f \in Families : familyUse[f] = Cardinality({c \in Calls : FamilyOf[c] = f /\ HoldsFamily(c)})

(* What a call holds is its own and is counted: its advertiser while its   *)
(* request is out, its slots until it gives them back.                     *)
HoldersAreCounted == OneRequestAtATime /\ SlotsMatchHolders

(* No command sends more requests than its budget allows, retries          *)
(* included, however its goroutines interleave (control.go:149-164).       *)
BudgetIsKept == \A p \in Commands : sent[p] <= used[p] /\ used[p] <= Limit[p]

(* Calls of one advertiser pass its gate at least Interval apart, whatever *)
(* command they belong to and however long they slept.                     *)
GateIsPaced ==
    [][\A a \in Advertisers : (\E c \in Paced : AdvertiserOf[c] = a /\ PassGate(c)) => since[a] = Interval]_vars

(* After an answer that demands a cooldown, no command sends the           *)
(* advertiser a request before the cooldown is over.  (A cooldown whose    *)
(* save failed, or whose process died before it, is not owed.)             *)
CooldownIsKept == [][\A c \in Paced : Send(c) => owed[AdvertiserOf[c]] = 0]_vars

(* Every call of a command that lives ends, even if no wait is ever given  *)
(* up: slots, lock and budget never wait for each other in a circle.       *)
EveryCallEnds == <>(\A c \in Calls : phase[c] \in Ended)

=============================================================================
