------------------------ MODULE RequestControlProofs ------------------------
(***************************************************************************)
(* What holds of RequestControl for every finite set of calls, any         *)
(* commands, scopes and advertisers, and all limits and times.             *)
(***************************************************************************)
EXTENDS RequestControl, FiniteSetTheorems, TLAPS

-----------------------------------------------------------------------------
(* Types                                                                   *)

(* TypeOK without the bounds of the semaphores, which follow from counting *)
(* their holders.                                                          *)
Typed ==
    /\ phase \in [Calls -> Phases] /\ outcome \in [Calls -> Outcomes]
    /\ attempt \in [Calls -> Nat] /\ wait \in [Calls -> Nat] /\ seen \in [Calls -> Nat]
    /\ \A c \in Calls : attempt[c] <= Attempts[c]
    /\ scopeUse \in [Scopes -> Int] /\ familyUse \in [Families -> Int]
    /\ holder \in [Advertisers -> Paced \cup {None}]
    /\ file \in [Advertisers -> [next : Nat, cooldown : Nat]]
    /\ used \in [Commands -> Nat] /\ sent \in [Commands -> Nat]
    /\ since \in [Advertisers -> 0..Interval] /\ owed \in [Advertisers -> Nat]
    /\ \A c \in Calls : phase[c] \in {"lock", "gate"} => c \in Paced
    /\ \A c \in Calls : phase[c] \in {"idle", "backoff"} => attempt[c] < Attempts[c]

LEMMA CooldownsAreTimes == Cooldowns \subseteq Nat
  BY LimitAssumption DEF Cooldowns

LEMMA ReleaseType ==
    ASSUME Typed, NEW c \in Calls, ReleaseSlots(c), ReleaseLock(c)
    PROVE  /\ scopeUse' \in [Scopes -> Int] /\ familyUse' \in [Families -> Int]
           /\ holder' \in [Advertisers -> Paced \cup {None}]
  <1>1. Count(HoldsScope(c)) \in Int /\ Count(HoldsFamily(c)) \in Int
    BY DEF Count
  <1> QED BY <1>1, MappingAssumption DEF Typed, ReleaseSlots, ReleaseLock

LEMMA FailAttemptType ==
    ASSUME Typed, NEW c \in Calls, NEW retryable \in BOOLEAN, FailAttempt(c, retryable),
           seen' \in [Calls -> Nat]
    PROVE  Typed'
  <1>1. After(c, retryable) \in {"backoff", "failed"}
        /\ (After(c, retryable) = "backoff" => attempt[c] < Attempts[c])
    BY DEF After
  <1>2. phase' = [phase EXCEPT ![c] = After(c, retryable)]
    BY DEF FailAttempt, Goto
  <1>3. phase' \in [Calls -> Phases]
    BY <1>1, <1>2 DEF Typed, Phases, Ended
  <1>4. wait' \in [Calls -> Nat]
    BY DEF FailAttempt, Typed
  <1> QED
    BY <1>1, <1>2, <1>3, <1>4, ReleaseType DEF FailAttempt, Typed

LEMMA CallStepType ==
    ASSUME Typed, NEW c \in Calls,
           CallStep(c) \/ GiveUp(c) \/ StopRetrying(c) \/ CloseUnsaved(c)
    PROVE  Typed'
  <1> USE MappingAssumption, LimitAssumption
  <1>1. CASE Begin(c)
    BY <1>1 DEF Begin, Goto, Typed, Phases, Waiting, slots, gate
  <1>2. CASE AcquireScope(c) \/ AcquireFamily(c)
    <2>1. CASE AcquireScope(c)
      BY <2>1 DEF AcquireScope, Goto, Typed, Phases, Waiting, gate
    <2>2. CASE AcquireFamily(c)
      BY <2>2 DEF AcquireFamily, Goto, Typed, Phases, Waiting, gate
    <2> QED BY <1>2, <2>1, <2>2
  <1>3. CASE AcquireLock(c)
    <2>1. WaitAt(AdvertiserOf[c]) \in Nat
      BY DEF WaitAt, Longer, Typed
    <2> QED BY <1>3, <2>1 DEF AcquireLock, Goto, Typed, Phases, Waiting, slots
  <1>4. CASE PassGate(c)
    BY <1>4 DEF PassGate, Stamped, Goto, Typed, Phases, slots
  <1>5. CASE LoadBudget(c)
    BY <1>5 DEF LoadBudget, Goto, Typed, Phases, slots, gate
  <1>6. CASE BudgetSpent(c)
    BY <1>6, FailAttemptType DEF BudgetSpent, Typed
  <1>7. CASE SwapBudget(c)
    <2>1. used' \in [Commands -> Nat] /\ seen' \in [Calls -> Nat]
      <3>1. /\ used' = [used EXCEPT ![CommandOf[c]] = seen[c] + 1] \/ used' = used
            /\ seen' = [seen EXCEPT ![c] = 0]
        BY <1>7 DEF SwapBudget
      <3>2. seen[c] + 1 \in Nat
        BY DEF Typed
      <3>3. seen' \in [Calls -> Nat]
        BY <3>1 DEF Typed
      <3>4. used' \in [Commands -> Nat]
        <4>1. CASE used' = used
          BY <4>1 DEF Typed
        <4>2. CASE used' = [used EXCEPT ![CommandOf[c]] = seen[c] + 1]
          BY <4>2, <3>2 DEF Typed
        <4> QED BY <3>1, <4>1, <4>2
      <3> QED BY <3>3, <3>4
    <2>2. PICK q \in {"send", "reserve"} : phase' = [phase EXCEPT ![c] = q]
      BY <1>7 DEF SwapBudget, Goto
    <2> QED BY <1>7, <2>1, <2>2 DEF SwapBudget, Typed, Phases, slots, gate
  <1>8. CASE Send(c)
    BY <1>8 DEF Send, Goto, Typed, Phases, InFlight, slots, gate
  <1>9. CASE Answer(c)
    <2>1. PICK o \in Outcomes, t \in Cooldowns \cup {0} :
             /\ outcome' = [outcome EXCEPT ![c] = o]
             /\ wait' = [wait EXCEPT ![c] = t]
             /\ owed' = [owed EXCEPT ![AdvertiserOf[c]] = Longer(owed[AdvertiserOf[c]], t)]
      BY <1>9 DEF Answer
    <2>2. t \in Nat /\ Longer(owed[AdvertiserOf[c]], t) \in Nat
      BY <2>1, CooldownsAreTimes DEF Longer, Typed
    <2> QED BY <1>9, <2>1, <2>2 DEF Answer, Goto, Typed, Phases, InFlight, slots, gate
  <1>10. CASE Close(c) \/ CloseUnsaved(c)
    <2>1. /\ Settle(c) \in {"done", "backoff", "failed"}
          /\ Settle(c) = "backoff" => attempt[c] < Attempts[c]
      BY DEF Settle, After
    <2>2. PICK p \in {"failed", Settle(c)} : phase' = [phase EXCEPT ![c] = p]
      BY <1>10 DEF Close, CloseUnsaved, Goto
    <2>3. phase' \in [Calls -> Phases]
      BY <2>1, <2>2 DEF Typed, Phases, Ended
    <2>4. file' \in [Advertisers -> [next : Nat, cooldown : Nat]]
      BY <1>10 DEF Close, CloseUnsaved, Cooled, Longer, Typed
    <2>5. /\ wait' \in [Calls -> Nat] /\ outcome' \in [Calls -> Outcomes]
          /\ owed' \in [Advertisers -> Nat]
      <3>1. CASE Close(c)
        BY <3>1 DEF Close, Typed, Outcomes
      <3>2. CASE CloseUnsaved(c)
        BY <3>2 DEF CloseUnsaved, Typed, Outcomes
      <3> QED BY <1>10, <3>1, <3>2
    <2>6. ReleaseSlots(c) /\ ReleaseLock(c)
      BY <1>10 DEF Close, CloseUnsaved
    <2> QED
      BY <1>10, <2>1, <2>2, <2>3, <2>4, <2>5, <2>6, ReleaseType DEF Close, CloseUnsaved, Typed
  <1>11. CASE GiveUp(c)
    BY <1>11, FailAttemptType DEF GiveUp, Typed
  <1>12. CASE StopRetrying(c)
    BY <1>12 DEF StopRetrying, Goto, Typed, Phases, Ended, slots, gate
  <1> QED
    BY <1>1, <1>2, <1>3, <1>4, <1>5, <1>6, <1>7, <1>8, <1>9, <1>10, <1>11, <1>12 DEF CallStep

LEMMA CrashType ==
    ASSUME Typed, NEW p \in Commands, Crash(p)
    PROVE  Typed'
  <1>1. phase' \in [Calls -> Phases] /\ outcome' \in [Calls -> Outcomes]
    BY DEF Crash, Typed, Phases, Ended, Outcomes
  <1>2. scopeUse' \in [Scopes -> Int] /\ familyUse' \in [Families -> Int]
    BY DEF Crash, Typed
  <1>3. \A c \in Calls : phase'[c] = "dead" \/ phase'[c] = phase[c]
    BY DEF Crash
  <1>4. wait' \in [Calls -> Nat] /\ seen' \in [Calls -> Nat] /\ owed' \in [Advertisers -> Nat]
    BY DEF Crash, Typed
  <1> QED BY <1>1, <1>2, <1>3, <1>4 DEF Crash, Typed

LEMMA TickType == ASSUME Typed, Tick PROVE Typed'
  <1>1. \A n \in Nat : Less(n) \in Nat
    BY DEF Less
  <1>2. file' \in [Advertisers -> [next : Nat, cooldown : Nat]]
    BY <1>1 DEF Tick, Typed
  <1>3. wait' \in [Calls -> Nat] /\ owed' \in [Advertisers -> Nat]
    BY <1>1 DEF Tick, Typed, Sleeping
  <1>4. since' \in [Advertisers -> 0..Interval]
    BY LimitAssumption DEF Tick, Typed
  <1> QED BY <1>2, <1>3, <1>4 DEF Tick, Typed, slots

(* Every variable keeps its type through every step.                       *)
LEMMA TypedAlways == Spec => []Typed
  <1>1. Init => Typed
    BY LimitAssumption DEF Init, Typed, Phases, Outcomes
  <1>2. Typed /\ [Next]_vars => Typed'
    <2> SUFFICES ASSUME Typed, [Next]_vars PROVE Typed'
      OBVIOUS
    <2>1. CASE UNCHANGED vars
      BY <2>1 DEF vars, slots, gate, Typed
    <2> QED BY <2>1, CallStepType, CrashType, TickType DEF Next
  <1> QED BY <1>1, <1>2, PTL DEF Spec

-----------------------------------------------------------------------------
(* The lock file                                                           *)

Locked == {"gate", "reserve", "swap", "send", "sent", "answered"}

(* A paced call between the gate and the close of its answer holds the     *)
(* lock file of its advertiser.                                            *)
LockHeld == \A c \in Calls : HoldsLock(c) => holder[AdvertiserOf[c]] = c

LEMMA LockedPhases == \A c \in Calls : HoldsLock(c) <=> c \in Paced /\ phase[c] \in Locked
  BY DEF HoldsLock, Locked, InFlight

LEMMA NextLockedPhases == \A c \in Calls : HoldsLock(c)' <=> c \in Paced /\ phase'[c] \in Locked
  BY DEF HoldsLock, Locked, InFlight

(* Two paced calls of one advertiser that hold its lock file are one.      *)
LEMMA OneHolder ==
    ASSUME LockHeld, NEW c \in Calls, NEW d \in Calls, HoldsLock(c), HoldsLock(d),
           AdvertiserOf[c] = AdvertiserOf[d]
    PROVE  c = d
  BY DEF LockHeld

(* A call that leaves the locked phases and gives its lock back disturbs   *)
(* nobody.                                                                 *)
LEMMA LockReleased ==
    ASSUME Typed, LockHeld, NEW c \in Calls, NEW q, q \notin Locked,
           phase' = [phase EXCEPT ![c] = q], ReleaseLock(c)
    PROVE  LockHeld'
  <1> SUFFICES ASSUME NEW d \in Calls, HoldsLock(d)' PROVE holder'[AdvertiserOf[d]] = d
    BY DEF LockHeld
  <1>1. d # c /\ HoldsLock(d)
    BY LockedPhases, NextLockedPhases DEF Typed
  <1>2. holder[AdvertiserOf[d]] = d
    BY <1>1 DEF LockHeld
  <1>3. HoldsLock(c) => AdvertiserOf[c] # AdvertiserOf[d]
    BY <1>1, OneHolder
  <1> QED BY <1>2, <1>3, MappingAssumption DEF ReleaseLock, Typed

(* A call that takes a step among phases that need the lock no more than   *)
(* before, with the lock files unchanged, disturbs nobody.                 *)
LEMMA LockUntouched ==
    ASSUME Typed, LockHeld, NEW c \in Calls, NEW q,
           phase' = [phase EXCEPT ![c] = q], holder' = holder,
           c \in Paced /\ q \in Locked => phase[c] \in Locked
    PROVE  LockHeld'
  <1> SUFFICES ASSUME NEW d \in Calls, HoldsLock(d)' PROVE holder'[AdvertiserOf[d]] = d
    BY DEF LockHeld
  <1>1. HoldsLock(d)
    BY LockedPhases, NextLockedPhases DEF Typed
  <1> QED BY <1>1 DEF LockHeld

LEMMA FailAttemptReleases ==
    ASSUME NEW c \in Calls, NEW retryable, FailAttempt(c, retryable)
    PROVE  /\ \E q \in {"backoff", "failed"} : phase' = [phase EXCEPT ![c] = q]
           /\ ReleaseLock(c)
  BY DEF FailAttempt, Goto, After

LEMMA CloseReleases ==
    ASSUME NEW c \in Calls, Close(c) \/ CloseUnsaved(c)
    PROVE  /\ \E q \in {"done", "backoff", "failed"} : phase' = [phase EXCEPT ![c] = q]
           /\ ReleaseLock(c)
  BY DEF Close, CloseUnsaved, Goto, Settle, After

LEMMA LockHeldStep ==
    ASSUME Typed, LockHeld, NEW c \in Calls,
           CallStep(c) \/ GiveUp(c) \/ StopRetrying(c) \/ CloseUnsaved(c)
    PROVE  LockHeld'
  <1>1. CASE Begin(c) \/ AcquireScope(c) \/ StopRetrying(c)
    <2>1. PICK q \in {"scope", "family", "failed"} : phase' = [phase EXCEPT ![c] = q] /\ holder' = holder
      BY <1>1 DEF Begin, AcquireScope, StopRetrying, Goto, gate
    <2> QED BY <2>1, LockUntouched DEF Locked
  <1>2. CASE AcquireFamily(c)
    <2>1. PICK q \in {"lock", "reserve"} :
             phase' = [phase EXCEPT ![c] = q] /\ holder' = holder /\ (q = "reserve" => c \notin Paced)
      BY <1>2 DEF AcquireFamily, Goto, gate
    <2> QED BY <2>1, LockUntouched DEF Locked
  <1>3. CASE AcquireLock(c)
    <2> SUFFICES ASSUME NEW d \in Calls, HoldsLock(d)' PROVE holder'[AdvertiserOf[d]] = d
      BY DEF LockHeld
    <2>1. CASE d = c
      BY <1>3, <2>1, MappingAssumption DEF AcquireLock, Typed
    <2>2. CASE d # c
      <3>1. HoldsLock(d)
        BY <1>3, <2>2, LockedPhases, NextLockedPhases DEF AcquireLock, Goto, Typed
      <3>2. holder[AdvertiserOf[d]] = d /\ d # None
        BY <3>1, NoneAssumption DEF LockHeld
      <3> QED BY <1>3, <3>2 DEF AcquireLock, Typed
    <2> QED BY <2>1, <2>2
  <1>4. CASE PassGate(c) \/ LoadBudget(c) \/ SwapBudget(c) \/ Send(c) \/ Answer(c)
    <2>1. PICK q \in Locked : phase' = [phase EXCEPT ![c] = q] /\ holder' = holder
      BY <1>4 DEF PassGate, LoadBudget, SwapBudget, Send, Answer, Goto, gate, Locked
    <2>2. phase[c] \in Locked
      BY <1>4 DEF PassGate, LoadBudget, SwapBudget, Send, Answer, Locked
    <2> QED BY <2>1, <2>2, LockUntouched
  <1>5. CASE BudgetSpent(c) \/ GiveUp(c)
    <2>1. PICK q \in {"backoff", "failed"} : phase' = [phase EXCEPT ![c] = q] /\ ReleaseLock(c)
      BY <1>5, FailAttemptReleases DEF BudgetSpent, GiveUp
    <2> QED BY <2>1, LockReleased DEF Locked
  <1>6. CASE Close(c) \/ CloseUnsaved(c)
    <2>1. PICK q \in {"done", "backoff", "failed"} : phase' = [phase EXCEPT ![c] = q] /\ ReleaseLock(c)
      BY <1>6, CloseReleases
    <2> QED BY <2>1, LockReleased DEF Locked
  <1> QED BY <1>1, <1>2, <1>3, <1>4, <1>5, <1>6 DEF CallStep

LEMMA LockHeldCrash ==
    ASSUME Typed, LockHeld, NEW p \in Commands, Crash(p)
    PROVE  LockHeld'
  <1> SUFFICES ASSUME NEW d \in Calls, HoldsLock(d)' PROVE holder'[AdvertiserOf[d]] = d
    BY DEF LockHeld
  <1>1. HoldsLock(d) /\ CommandOf[d] # p
    BY LockedPhases, NextLockedPhases DEF Crash, Locked
  <1>2. holder[AdvertiserOf[d]] = d
    BY <1>1 DEF LockHeld
  <1>3. \A c \in Calls : CommandOf[c] = p /\ HoldsLock(c) => AdvertiserOf[c] # AdvertiserOf[d]
    BY <1>1, OneHolder
  <1> QED BY <1>2, <1>3, MappingAssumption DEF Crash

LEMMA LockHeldAlways == Spec => []LockHeld
  <1>1. Init => LockHeld
    BY DEF Init, LockHeld, HoldsLock, InFlight
  <1>2. Typed /\ LockHeld /\ [Next]_vars => LockHeld'
    <2> SUFFICES ASSUME Typed, LockHeld, [Next]_vars PROVE LockHeld'
      OBVIOUS
    <2>1. CASE UNCHANGED vars
      BY <2>1 DEF vars, gate, LockHeld, HoldsLock
    <2>2. CASE Tick
      BY <2>2 DEF Tick, LockHeld, HoldsLock
    <2> QED BY <2>1, <2>2, LockHeldStep, LockHeldCrash DEF Next
  <1> QED BY <1>1, <1>2, TypedAlways, PTL DEF Spec

(* OneRequestAtATime: the lock file admits one request of an advertiser,   *)
(* from the gate to the close of the answer's body, for all commands       *)
(* (client.go RoundTrip, sharedControlledBody).                            *)
THEOREM OneRequest == Spec => []OneRequestAtATime
  <1>1. LockHeld => OneRequestAtATime
    <2> SUFFICES ASSUME LockHeld, NEW c \in Paced, NEW d \in Paced,
                        AdvertiserOf[c] = AdvertiserOf[d], {phase[c], phase[d]} \subseteq InFlight
                 PROVE  c = d
      BY DEF OneRequestAtATime
    <2>1. c \in Calls /\ d \in Calls /\ HoldsLock(c) /\ HoldsLock(d)
      BY LimitAssumption DEF HoldsLock
    <2> QED BY <2>1, OneHolder
  <1> QED BY <1>1, LockHeldAlways, PTL

-----------------------------------------------------------------------------
(* The interval                                                            *)

(* What is left to wait, in the state file or of a call's sleep, is never  *)
(* less than what is missing to the interval.                              *)
Paces ==
    /\ \A a \in Advertisers : since[a] + file[a].next >= Interval
    /\ \A c \in Paced : phase[c] = "gate" => since[AdvertiserOf[c]] + wait[c] >= Interval

(* A step that touches neither the clocks nor a sleeping call.             *)
LEMMA PacesUntouched ==
    ASSUME Typed, Paces, since' = since,
           \A a \in Advertisers : file'[a].next = file[a].next,
           \A d \in Paced : phase'[d] = "gate" => phase[d] = "gate" /\ wait'[d] = wait[d]
    PROVE  Paces'
  BY LimitAssumption DEF Paces

LEMMA FailAttemptWakes ==
    ASSUME Typed, NEW c \in Calls, NEW retryable, FailAttempt(c, retryable)
    PROVE  /\ since' = since /\ file' = file /\ owed' = owed /\ outcome' = outcome
           /\ wait' = [wait EXCEPT ![c] = 0]
           /\ \A d \in Calls : phase'[d] = IF d = c THEN phase'[c] ELSE phase[d]
           /\ phase'[c] \in {"backoff", "failed"}
  BY DEF FailAttempt, Goto, After, Typed

LEMMA CloseWakes ==
    ASSUME Typed, NEW c \in Calls, Close(c) \/ CloseUnsaved(c)
    PROVE  /\ since' = since /\ wait' = [wait EXCEPT ![c] = 0]
           /\ outcome' = [outcome EXCEPT ![c] = "ok"]
           /\ \A a \in Advertisers : file'[a].next = file[a].next
           /\ \A d \in Calls : phase'[d] = IF d = c THEN phase'[c] ELSE phase[d]
           /\ phase'[c] \in {"done", "backoff", "failed"}
  <1>1. PICK q \in {"done", "backoff", "failed"} : phase' = [phase EXCEPT ![c] = q]
    BY CloseReleases
  <1>2. \A a \in Advertisers : file'[a].next = file[a].next
    <2>1. CASE Close(c)
      BY <2>1, MappingAssumption DEF Close, Cooled, Typed
    <2>2. CASE CloseUnsaved(c)
      BY <2>2 DEF CloseUnsaved
    <2> QED BY <2>1, <2>2
  <1> QED BY <1>1, <1>2 DEF Close, CloseUnsaved, Typed

LEMMA PacesStep ==
    ASSUME Typed, LockHeld, Paces, NEW c \in Calls,
           CallStep(c) \/ GiveUp(c) \/ StopRetrying(c) \/ CloseUnsaved(c)
    PROVE  Paces'
  <1> USE MappingAssumption, LimitAssumption
  <1>1. CASE AcquireLock(c)
    <2>1. WaitAt(AdvertiserOf[c]) >= file[AdvertiserOf[c]].next
      BY DEF WaitAt, Longer, Typed
    <2>2. since' = since /\ file' = file /\ wait'[c] = WaitAt(AdvertiserOf[c])
      BY <1>1 DEF AcquireLock, Typed
    <2>3. \A d \in Calls : d # c => phase'[d] = phase[d] /\ wait'[d] = wait[d]
      BY <1>1 DEF AcquireLock, Goto, Typed
    <2>4. ASSUME NEW d \in Paced, phase'[d] = "gate"
          PROVE  since'[AdvertiserOf[d]] + wait'[d] >= Interval
      <3>1. CASE d = c
        <4>1. WaitAt(AdvertiserOf[c]) \in Nat
          BY DEF WaitAt, Longer, Typed
        <4> QED BY <2>1, <2>2, <3>1, <4>1 DEF Typed, Paces
      <3>2. CASE d # c
        BY <2>2, <2>3, <2>4, <3>2 DEF Paces
      <3> QED BY <3>1, <3>2
    <2> QED BY <2>2, <2>4 DEF Paces
  <1>2. CASE PassGate(c)
    <2>1. \A d \in Paced : phase'[d] = "gate" =>
             phase[d] = "gate" /\ d # c /\ AdvertiserOf[d] # AdvertiserOf[c]
      <3> SUFFICES ASSUME NEW d \in Paced, phase'[d] = "gate"
                   PROVE  phase[d] = "gate" /\ d # c /\ AdvertiserOf[d] # AdvertiserOf[c]
        OBVIOUS
      <3>1. phase[d] = "gate" /\ d # c /\ phase[c] = "gate" /\ c \in Paced
        BY <1>2 DEF PassGate, Goto, Typed
      <3>2. HoldsLock(c) /\ HoldsLock(d)
        BY <3>1 DEF HoldsLock
      <3> QED BY <3>1, <3>2, OneHolder
    <2>2. \A a \in Advertisers : since'[a] + file'[a].next >= Interval
      BY <1>2 DEF PassGate, Stamped, Typed, Paces
    <2>3. \A d \in Paced : phase'[d] = "gate" => since'[AdvertiserOf[d]] + wait'[d] >= Interval
      BY <1>2, <2>1 DEF PassGate, Typed, Paces
    <2> QED BY <2>2, <2>3 DEF Paces
  <1>3. CASE Begin(c) \/ AcquireScope(c) \/ AcquireFamily(c) \/ LoadBudget(c) \/ SwapBudget(c)
             \/ Send(c) \/ StopRetrying(c)
    <2>1. since' = since /\ file' = file /\ wait' = wait
      BY <1>3 DEF Begin, AcquireScope, AcquireFamily, LoadBudget, SwapBudget, Send, StopRetrying, gate
    <2>2. \E q \in {"scope", "family", "lock", "reserve", "swap", "send", "sent", "failed"} :
             phase' = [phase EXCEPT ![c] = q]
      BY <1>3 DEF Begin, AcquireScope, AcquireFamily, LoadBudget, SwapBudget, Send, StopRetrying, Goto
    <2> QED BY <2>1, <2>2, PacesUntouched DEF Typed
  <1>4. CASE Answer(c)
    <2>1. since' = since /\ file' = file /\ \E t : wait' = [wait EXCEPT ![c] = t]
      BY <1>4 DEF Answer, gate
    <2>2. phase' = [phase EXCEPT ![c] = "answered"]
      BY <1>4 DEF Answer, Goto
    <2> QED BY <2>1, <2>2, PacesUntouched DEF Typed
  <1>5. CASE BudgetSpent(c) \/ GiveUp(c)
    <2>1. \E retryable : FailAttempt(c, retryable)
      BY <1>5 DEF BudgetSpent, GiveUp
    <2> QED BY <2>1, FailAttemptWakes, PacesUntouched DEF Typed
  <1>6. CASE Close(c) \/ CloseUnsaved(c)
    BY <1>6, CloseWakes, PacesUntouched DEF Typed
  <1> QED BY <1>1, <1>2, <1>3, <1>4, <1>5, <1>6 DEF CallStep

LEMMA PacesCrash ==
    ASSUME Typed, Paces, NEW p \in Commands, Crash(p)
    PROVE  Paces'
  <1>1. since' = since /\ file' = file
    BY DEF Crash
  <1>2. \A d \in Paced : phase'[d] = "gate" => phase[d] = "gate" /\ wait'[d] = wait[d]
    BY LimitAssumption DEF Crash
  <1> QED BY <1>1, <1>2, PacesUntouched

LEMMA PacesTick == ASSUME Typed, Paces, Tick PROVE Paces'
  <1> USE MappingAssumption, LimitAssumption
  <1>1. ASSUME NEW a \in Advertisers PROVE since'[a] + file'[a].next >= Interval
    <2>1. /\ since'[a] = IF since[a] < Interval THEN since[a] + 1 ELSE since[a]
          /\ file'[a].next = Less(file[a].next)
      BY DEF Tick
    <2> QED BY <2>1 DEF Less, Typed, Paces
  <1>2. ASSUME NEW c \in Paced, phase'[c] = "gate"
        PROVE  since'[AdvertiserOf[c]] + wait'[c] >= Interval
    <2>1. /\ since'[AdvertiserOf[c]] =
                IF since[AdvertiserOf[c]] < Interval THEN since[AdvertiserOf[c]] + 1 ELSE since[AdvertiserOf[c]]
          /\ wait'[c] = IF wait[c] > 0 THEN wait[c] - 1 ELSE wait[c]
      BY <1>2 DEF Tick, Sleeping
    <2> QED BY <1>2, <2>1 DEF Tick, Typed, Paces
  <1> QED BY <1>1, <1>2 DEF Paces

LEMMA PacesAlways == Spec => []Paces
  <1>1. Init => Paces
    BY LimitAssumption, MappingAssumption DEF Init, Paces
  <1>2. Typed /\ LockHeld /\ Paces /\ [Next]_vars => Paces'
    <2> SUFFICES ASSUME Typed, LockHeld, Paces, [Next]_vars PROVE Paces'
      OBVIOUS
    <2>1. CASE UNCHANGED vars
      BY <2>1 DEF vars, gate, Paces
    <2> QED BY <2>1, PacesStep, PacesCrash, PacesTick DEF Next
  <1> QED BY <1>1, <1>2, TypedAlways, LockHeldAlways, PTL DEF Spec

(* GateIsPaced: whoever passes an advertiser's gate does so at least       *)
(* Interval after the one before, whatever command the two belong to       *)
(* (qianchuan_request_control.go Acquire).                                 *)
THEOREM GatePaced == Spec => GateIsPaced
  <1>1. ASSUME Typed, Paces, NEW a \in Advertisers, NEW c \in Paced, AdvertiserOf[c] = a, PassGate(c)
        PROVE  since[a] = Interval
    <2>1. since[a] + wait[c] >= Interval /\ wait[c] = 0
      BY <1>1 DEF PassGate, Paces
    <2>2. since[a] \in 0..Interval
      BY <1>1 DEF Typed
    <2> QED BY <2>1, <2>2, LimitAssumption
  <1>2. Typed /\ Paces => [\A a \in Advertisers :
            (\E c \in Paced : AdvertiserOf[c] = a /\ PassGate(c)) => since[a] = Interval]_vars
    BY <1>1
  <1> QED BY <1>2, TypedAlways, PacesAlways, PTL DEF GateIsPaced

-----------------------------------------------------------------------------
(* The cooldown                                                            *)

Owing(c) == phase[c] = "answered" /\ Throttles(c, outcome[c])
Served(a) == \A c \in Paced : AdvertiserOf[c] = a => ~Owing(c)

(* A cooldown somebody was told of is in the state file, or with the call  *)
(* that is about to write it there; whoever sleeps at the gate will have   *)
(* waited for it, and whoever is past the gate has.                        *)
Recorded == \A a \in Advertisers : Served(a) => owed[a] <= file[a].cooldown
Carried == \A c \in Paced : Owing(c) => owed[AdvertiserOf[c]] <= Longer(file[AdvertiserOf[c]].cooldown, wait[c])
SleptOut == \A c \in Paced : phase[c] = "gate" => owed[AdvertiserOf[c]] <= wait[c]
Waited == \A c \in Paced : phase[c] \in {"reserve", "swap", "send", "sent"} => owed[AdvertiserOf[c]] = 0
Cools == Recorded /\ Carried /\ SleptOut /\ Waited

(* The other paced calls of an advertiser whose lock is held are elsewhere.*)
LEMMA OthersAreElsewhere ==
    ASSUME LockHeld, NEW c \in Paced, NEW d \in Paced, phase[c] \in Locked, d # c,
           AdvertiserOf[c] = AdvertiserOf[d]
    PROVE  phase[d] \notin Locked
  BY LockedPhases, OneHolder, LimitAssumption

(* A step that moves only a call which owes nothing, before and after, and *)
(* does not pass it through the gate.                                      *)
LEMMA CoolsUntouched ==
    ASSUME Typed, Cools, NEW c \in Calls, file' = file, owed' = owed, outcome' = outcome,
           \A d \in Calls : d # c => phase'[d] = phase[d] /\ wait'[d] = wait[d],
           ~Owing(c), phase'[c] \notin {"gate", "answered"},
           c \in Paced /\ phase'[c] \in {"reserve", "swap", "send", "sent"} =>
              phase[c] \in {"reserve", "swap", "send", "sent"}
    PROVE  Cools'
  <1> USE LimitAssumption
  <1>1. \A d \in Calls : Owing(d)' <=> Owing(d)
    BY DEF Owing, Throttles
  <1>2. Recorded'
    BY <1>1 DEF Cools, Recorded, Served
  <1>3. Carried'
    BY <1>1 DEF Cools, Carried, Longer
  <1>4. SleptOut' /\ Waited'
    BY DEF Cools, SleptOut, Waited
  <1> QED BY <1>2, <1>3, <1>4 DEF Cools

LEMMA CoolsAnswer ==
    ASSUME Typed, LockHeld, Cools, NEW c \in Calls, Answer(c)
    PROVE  Cools'
  <1> USE LimitAssumption, MappingAssumption
  <1> DEFINE a == AdvertiserOf[c]
  <1>1. PICK o \in Outcomes, t \in Cooldowns \cup {0} :
           /\ outcome' = [outcome EXCEPT ![c] = o]
           /\ wait' = [wait EXCEPT ![c] = t]
           /\ owed' = [owed EXCEPT ![a] = Longer(owed[a], t)]
           /\ ~Throttles(c, o) => t = 0
    BY DEF Answer
  <1>2. phase' = [phase EXCEPT ![c] = "answered"] /\ phase[c] = "sent" /\ file' = file
    BY DEF Answer, Goto, gate
  <1>3. t \in Nat
    BY CooldownsAreTimes
  <1>4. \A d \in Calls : d # c => (Owing(d)' <=> Owing(d))
    BY <1>1, <1>2 DEF Owing, Throttles, Typed
  <1>5. Owing(c)' <=> Throttles(c, o)
    BY <1>1, <1>2 DEF Owing, Throttles, Typed
  <1>6. c \in Paced => owed[a] = 0
    BY <1>2 DEF Cools, Waited
  <1>7. c \in Paced => owed'[a] = t
    BY <1>1, <1>3, <1>6 DEF Longer, Typed
  <1>8. \A b \in Advertisers : (c \in Paced => b # a) => owed'[b] = owed[b]
    <2>1. c \notin Paced => t = 0
      BY <1>1 DEF Throttles
    <2> QED BY <1>1, <2>1 DEF Longer, Typed
  <1>9. \A d \in Paced : c \in Paced /\ d # c /\ AdvertiserOf[d] = a => phase[d] \notin Locked
    BY <1>2, OthersAreElsewhere DEF Locked
  <1>10. Recorded'
    <2> SUFFICES ASSUME NEW b \in Advertisers, Served(b)' PROVE owed'[b] <= file'[b].cooldown
      BY DEF Recorded
    <2>1. CASE c \in Paced /\ b = a
      <3>1. t = 0
        BY <1>1, <1>5, <2>1 DEF Served
      <3> QED BY <1>2, <1>7, <2>1, <3>1 DEF Typed
    <2>2. CASE ~(c \in Paced /\ b = a)
      <3>1. Served(b)
        BY <1>4, <2>2 DEF Served
      <3> QED BY <1>2, <1>8, <2>2, <3>1 DEF Cools, Recorded
    <2> QED BY <2>1, <2>2
  <1>11. Carried'
    <2> SUFFICES ASSUME NEW d \in Paced, Owing(d)'
                 PROVE  owed'[AdvertiserOf[d]] <= Longer(file'[AdvertiserOf[d]].cooldown, wait'[d])
      BY DEF Carried
    <2>1. CASE d = c
      BY <1>1, <1>2, <1>3, <1>7, <2>1 DEF Longer, Typed
    <2>2. CASE d # c
      <3>1. Owing(d) /\ phase[d] \in Locked
        BY <1>4, <2>2 DEF Owing, Locked
      <3>2. owed'[AdvertiserOf[d]] = owed[AdvertiserOf[d]]
        BY <1>8, <1>9, <2>2, <3>1
      <3> QED BY <1>1, <1>2, <2>2, <3>1, <3>2 DEF Cools, Carried, Typed
    <2> QED BY <2>1, <2>2
  <1>12. SleptOut' /\ Waited'
    <2> SUFFICES ASSUME NEW d \in Paced, phase'[d] \in {"gate", "reserve", "swap", "send", "sent"}
                 PROVE  /\ phase'[d] = "gate" => owed'[AdvertiserOf[d]] <= wait'[d]
                        /\ phase'[d] # "gate" => owed'[AdvertiserOf[d]] = 0
      BY DEF SleptOut, Waited
    <2>1. d # c /\ phase[d] = phase'[d] /\ phase[d] \in Locked
      BY <1>2 DEF Typed, Locked
    <2>2. owed'[AdvertiserOf[d]] = owed[AdvertiserOf[d]] /\ wait'[d] = wait[d]
      BY <1>1, <1>8, <1>9, <2>1 DEF Typed
    <2> QED BY <2>1, <2>2 DEF Cools, SleptOut, Waited
  <1> QED BY <1>10, <1>11, <1>12 DEF Cools

LEMMA CoolsAcquire ==
    ASSUME Typed, LockHeld, Cools, NEW c \in Calls, AcquireLock(c)
    PROVE  Cools'
  <1> USE LimitAssumption, MappingAssumption
  <1> DEFINE a == AdvertiserOf[c]
  <1>1. /\ file' = file /\ owed' = owed /\ outcome' = outcome
        /\ phase' = [phase EXCEPT ![c] = "gate"] /\ wait' = [wait EXCEPT ![c] = WaitAt(a)]
        /\ phase[c] = "lock" /\ holder[a] = None
    BY DEF AcquireLock, Goto
  <1>2. \A d \in Calls : Owing(d)' <=> Owing(d)
    BY <1>1 DEF Owing, Throttles, Typed
  <1>3. Served(a)
    <2> SUFFICES ASSUME NEW d \in Paced, AdvertiserOf[d] = a, Owing(d) PROVE FALSE
      BY DEF Served
    <2>1. HoldsLock(d)
      BY DEF Owing, HoldsLock, InFlight
    <2> QED BY <1>1, <2>1, NoneAssumption DEF LockHeld
  <1>4. owed[a] <= WaitAt(a)
    BY <1>3 DEF Cools, Recorded, WaitAt, Longer, Typed
  <1>5. Recorded' /\ Carried'
    <2>1. Recorded'
      BY <1>1, <1>2 DEF Cools, Recorded, Served
    <2>2. \A d \in Calls : Owing(d) => wait'[d] = wait[d]
      BY <1>1 DEF Owing, Typed
    <2>3. Carried'
      BY <1>1, <1>2, <2>2 DEF Cools, Carried
    <2> QED BY <2>1, <2>3
  <1>6. SleptOut' /\ Waited'
    <2>1. \A d \in Calls : d # c => phase'[d] = phase[d] /\ wait'[d] = wait[d]
      BY <1>1 DEF Typed
    <2>2. phase'[c] = "gate" /\ wait'[c] = WaitAt(a)
      BY <1>1 DEF Typed
    <2> QED BY <1>1, <1>4, <2>1, <2>2 DEF Cools, SleptOut, Waited
  <1> QED BY <1>5, <1>6 DEF Cools

LEMMA CoolsPass ==
    ASSUME Typed, LockHeld, Cools, NEW c \in Calls, PassGate(c)
    PROVE  Cools'
  <1> USE LimitAssumption, MappingAssumption
  <1>1. /\ owed' = owed /\ outcome' = outcome /\ wait' = wait
        /\ phase' = [phase EXCEPT ![c] = "reserve"]
        /\ phase[c] = "gate" /\ wait[c] = 0
    BY DEF PassGate, Goto
  <1>2. \A b \in Advertisers : file'[b].cooldown = file[b].cooldown
    BY DEF PassGate, Stamped, Typed
  <1>3. \A d \in Calls : Owing(d)' <=> Owing(d)
    BY <1>1 DEF Owing, Throttles, Typed
  <1>4. c \in Paced /\ owed[AdvertiserOf[c]] = 0
    BY <1>1 DEF Typed, Cools, SleptOut
  <1>5. Recorded' /\ Carried'
    BY <1>1, <1>2, <1>3 DEF Cools, Recorded, Carried, Served
  <1>6. SleptOut' /\ Waited'
    BY <1>1, <1>4 DEF Cools, SleptOut, Waited, Typed
  <1> QED BY <1>5, <1>6 DEF Cools

LEMMA CoolsClose ==
    ASSUME Typed, LockHeld, Cools, NEW c \in Calls, Close(c) \/ CloseUnsaved(c)
    PROVE  Cools'
  <1> USE LimitAssumption, MappingAssumption
  <1> DEFINE a == AdvertiserOf[c]
  <1>1. /\ phase[c] = "answered" /\ ~Owing(c)'
        /\ phase'[c] \in {"done", "backoff", "failed"}
        /\ \A d \in Calls : d # c => phase'[d] = phase[d] /\ wait'[d] = wait[d] /\ (Owing(d)' <=> Owing(d))
    BY CloseWakes, ZenonT(60) DEF Close, CloseUnsaved, Owing, Throttles, Typed
  <1>2. \A b \in Advertisers : (Owing(c) => b # a) => file'[b] = file[b] /\ owed'[b] = owed[b]
    BY <1>1 DEF Close, CloseUnsaved, Cooled, Owing, Typed
  <1>3. Owing(c) => owed'[a] <= file'[a].cooldown /\ owed'[a] <= owed[a] /\ c \in Paced
    <2> SUFFICES ASSUME Owing(c) PROVE owed'[a] <= file'[a].cooldown /\ owed'[a] <= owed[a] /\ c \in Paced
      OBVIOUS
    <2>1. c \in Paced /\ Throttles(c, outcome[c]) /\ owed[a] <= Longer(file[a].cooldown, wait[c])
      BY DEF Owing, Throttles, Cools, Carried
    <2>2. CASE Close(c)
      <3>1. file'[a].cooldown = Longer(file[a].cooldown, wait[c]) /\ owed' = owed
        BY <2>1, <2>2 DEF Close, Cooled, Typed
      <3> QED BY <2>1, <3>1 DEF Typed
    <2>3. CASE CloseUnsaved(c)
      BY <2>1, <2>3 DEF CloseUnsaved, Typed
    <2> QED BY <2>2, <2>3
  <1>4. \A d \in Paced : Owing(c) /\ d # c /\ AdvertiserOf[d] = a => phase[d] \notin Locked
    <2>1. Owing(c) => c \in Paced /\ phase[c] \in Locked
      BY DEF Owing, Throttles, Locked
    <2> QED BY <2>1, OthersAreElsewhere
  <1>5. Recorded'
    <2> SUFFICES ASSUME NEW b \in Advertisers, Served(b)' PROVE owed'[b] <= file'[b].cooldown
      BY DEF Recorded
    <2>1. CASE Owing(c) /\ b = a
      BY <1>3, <2>1
    <2>2. CASE ~(Owing(c) /\ b = a)
      <3>1. Served(b)
        BY <1>1, <2>2 DEF Served
      <3> QED BY <1>2, <2>2, <3>1 DEF Cools, Recorded
    <2> QED BY <2>1, <2>2
  <1>6. ASSUME NEW d \in Paced, phase'[d] \in Locked
        PROVE  /\ d # c /\ phase'[d] = phase[d] /\ wait'[d] = wait[d]
               /\ file'[AdvertiserOf[d]] = file[AdvertiserOf[d]]
               /\ owed'[AdvertiserOf[d]] = owed[AdvertiserOf[d]]
    <2>1. d # c /\ phase'[d] = phase[d] /\ wait'[d] = wait[d]
      BY <1>1, <1>6 DEF Locked
    <2>2. Owing(c) => AdvertiserOf[d] # a
      BY <1>4, <1>6, <2>1
    <2> QED BY <1>2, <2>1, <2>2
  <1>7. Carried'
    <2> SUFFICES ASSUME NEW d \in Paced, Owing(d)'
                 PROVE  owed'[AdvertiserOf[d]] <= Longer(file'[AdvertiserOf[d]].cooldown, wait'[d])
      BY DEF Carried
    <2>1. phase'[d] \in Locked
      BY DEF Owing, Locked
    <2>2. Owing(d)
      BY <1>1, <1>6, <2>1
    <2> QED BY <1>6, <2>1, <2>2 DEF Cools, Carried
  <1>8. SleptOut' /\ Waited'
    BY <1>6 DEF Cools, SleptOut, Waited, Locked
  <1> QED BY <1>5, <1>7, <1>8 DEF Cools

LEMMA CoolsStep ==
    ASSUME Typed, LockHeld, Cools, NEW c \in Calls,
           CallStep(c) \/ GiveUp(c) \/ StopRetrying(c) \/ CloseUnsaved(c)
    PROVE  Cools'
  <1>1. CASE Begin(c) \/ AcquireScope(c) \/ AcquireFamily(c) \/ LoadBudget(c) \/ SwapBudget(c)
             \/ Send(c) \/ StopRetrying(c)
    <2>1. file' = file /\ owed' = owed /\ outcome' = outcome /\ wait' = wait
      BY <1>1 DEF Begin, AcquireScope, AcquireFamily, LoadBudget, SwapBudget, Send, StopRetrying, gate
    <2>2. \E q \in {"scope", "family", "lock", "reserve", "swap", "send", "sent", "failed"} :
             /\ phase' = [phase EXCEPT ![c] = q]
             /\ c \in Paced /\ q \in {"reserve", "swap", "send", "sent"} =>
                   phase[c] \in {"reserve", "swap", "send", "sent"}
      BY <1>1 DEF Begin, AcquireScope, AcquireFamily, LoadBudget, SwapBudget, Send, StopRetrying, Goto
    <2>3. ~Owing(c)
      BY <1>1 DEF Begin, AcquireScope, AcquireFamily, LoadBudget, SwapBudget, Send, StopRetrying, Owing
    <2> QED BY <2>1, <2>2, <2>3, CoolsUntouched DEF Typed
  <1>2. CASE BudgetSpent(c) \/ GiveUp(c)
    <2>1. \E retryable : FailAttempt(c, retryable)
      BY <1>2 DEF BudgetSpent, GiveUp
    <2>2. ~Owing(c)
      BY <1>2 DEF BudgetSpent, GiveUp, Owing, Waiting
    <2> QED BY <2>1, <2>2, FailAttemptWakes, CoolsUntouched DEF Typed
  <1> QED BY <1>1, <1>2, CoolsAcquire, CoolsPass, CoolsAnswer, CoolsClose DEF CallStep

LEMMA CoolsCrash ==
    ASSUME Typed, Cools, NEW p \in Commands, Crash(p)
    PROVE  Cools'
  <1> USE LimitAssumption, MappingAssumption
  <1>1. /\ file' = file
        /\ \A d \in Calls : CommandOf[d] = p => phase'[d] = "dead"
        /\ \A d \in Calls : CommandOf[d] # p =>
              phase'[d] = phase[d] /\ wait'[d] = wait[d] /\ outcome'[d] = outcome[d]
        /\ \A a \in Advertisers :
              owed'[a] = IF \E c \in Calls : CommandOf[c] = p /\ AdvertiserOf[c] = a /\ Owing(c)
                         THEN 0 ELSE owed[a]
    BY DEF Crash, Owing
  <1>2. \A d \in Calls : Owing(d)' <=> Owing(d) /\ CommandOf[d] # p
    BY <1>1 DEF Owing, Throttles
  <1>3. \A a \in Advertisers : owed'[a] <= owed[a]
    <2> SUFFICES ASSUME NEW a \in Advertisers PROVE owed'[a] <= owed[a]
      OBVIOUS
    <2>1. owed[a] \in Nat /\ owed'[a] \in {0, owed[a]}
      BY <1>1 DEF Typed
    <2> QED BY <2>1
  <1>4. Recorded'
    <2> SUFFICES ASSUME NEW a \in Advertisers, Served(a)' PROVE owed'[a] <= file'[a].cooldown
      BY DEF Recorded
    <2>1. CASE \E c \in Calls : CommandOf[c] = p /\ AdvertiserOf[c] = a /\ Owing(c)
      <3>1. owed'[a] = 0 /\ file'[a] = file[a]
        BY ONLY <1>1, <2>1
      <3>2. file[a].cooldown \in Nat
        BY ONLY Typed, a \in Advertisers DEF Typed
      <3> QED BY ONLY <3>1, <3>2
    <2>2. CASE ~\E c \in Calls : CommandOf[c] = p /\ AdvertiserOf[c] = a /\ Owing(c)
      <3>1. Served(a)
        BY <1>2, <2>2 DEF Served
      <3> QED BY <1>1, <2>2, <3>1 DEF Cools, Recorded
    <2> QED BY <2>1, <2>2
  <1>5. ASSUME NEW d \in Paced, phase'[d] # "dead"
        PROVE  /\ phase'[d] = phase[d] /\ wait'[d] = wait[d] /\ AdvertiserOf[d] \in Advertisers
               /\ owed'[AdvertiserOf[d]] <= owed[AdvertiserOf[d]]
               /\ owed'[AdvertiserOf[d]] \in Nat /\ owed[AdvertiserOf[d]] \in Nat
               /\ wait[d] \in Nat /\ file[AdvertiserOf[d]].cooldown \in Nat
    BY <1>1, <1>3, <1>5 DEF Typed
  <1>6. Carried'
    <2> SUFFICES ASSUME NEW d \in Paced, Owing(d)'
                 PROVE  owed'[AdvertiserOf[d]] <= Longer(file'[AdvertiserOf[d]].cooldown, wait'[d])
      BY DEF Carried
    <2>1. Owing(d) /\ phase'[d] # "dead"
      BY <1>2 DEF Owing
    <2>2. owed[AdvertiserOf[d]] <= Longer(file[AdvertiserOf[d]].cooldown, wait[d])
      BY <2>1 DEF Cools, Carried
    <2> QED BY <1>1, <1>5, <2>1, <2>2 DEF Longer
  <1>7. SleptOut' /\ Waited'
    <2> SUFFICES ASSUME NEW d \in Paced, phase'[d] \in {"gate", "reserve", "swap", "send", "sent"}
                 PROVE  /\ phase'[d] = "gate" => owed'[AdvertiserOf[d]] <= wait'[d]
                        /\ phase'[d] # "gate" => owed'[AdvertiserOf[d]] = 0
      BY DEF SleptOut, Waited
    <2>1. /\ phase[d] = "gate" => owed[AdvertiserOf[d]] <= wait[d]
          /\ phase[d] \in {"reserve", "swap", "send", "sent"} => owed[AdvertiserOf[d]] = 0
      BY DEF Cools, SleptOut, Waited
    <2>2. phase'[d] # "dead"
      OBVIOUS
    <2> QED BY <1>5, <2>1, <2>2
  <1> QED BY <1>4, <1>6, <1>7 DEF Cools

LEMMA CoolsTick == ASSUME Typed, Cools, Tick PROVE Cools'
  <1> USE LimitAssumption, MappingAssumption
  <1>1. /\ phase' = phase /\ outcome' = outcome
        /\ \A a \in Advertisers : file'[a].cooldown = Less(file[a].cooldown) /\ owed'[a] = Less(owed[a])
        /\ \A c \in Calls : wait'[c] = IF Sleeping(c) THEN wait[c] - 1 ELSE wait[c]
    BY DEF Tick
  <1>2. \A m, n \in Nat : m <= n => Less(m) <= Less(n)
    BY DEF Less
  <1>3. \A c \in Calls : Owing(c)' <=> Owing(c)
    BY <1>1 DEF Owing, Throttles
  <1>4. Recorded'
    <2> SUFFICES ASSUME NEW a \in Advertisers, Served(a)' PROVE owed'[a] <= file'[a].cooldown
      BY DEF Recorded
    <2>1. owed[a] <= file[a].cooldown
      BY <1>3 DEF Cools, Recorded, Served
    <2>2. owed[a] \in Nat /\ file[a].cooldown \in Nat
      BY DEF Typed
    <2> QED BY <1>1, <1>2, <2>1, <2>2
  <1>5. Carried'
    <2> SUFFICES ASSUME NEW d \in Paced, Owing(d)'
                 PROVE  owed'[AdvertiserOf[d]] <= Longer(file'[AdvertiserOf[d]].cooldown, wait'[d])
      BY DEF Carried
    <2>1. owed[AdvertiserOf[d]] <= Longer(file[AdvertiserOf[d]].cooldown, wait[d])
      BY <1>3 DEF Cools, Carried
    <2>2. wait'[d] = wait[d]
      BY <1>1 DEF Owing, Sleeping
    <2>3. \A m, n, k \in Nat : m <= Longer(n, k) => Less(m) <= Longer(Less(n), k)
      BY DEF Less, Longer
    <2> QED BY <1>1, <2>1, <2>2, <2>3 DEF Typed
  <1>6. SleptOut'
    <2> SUFFICES ASSUME NEW d \in Paced, phase[d] = "gate"
                 PROVE  owed'[AdvertiserOf[d]] <= wait'[d]
      BY <1>1 DEF SleptOut
    <2>1. owed[AdvertiserOf[d]] <= wait[d]
      BY DEF Cools, SleptOut
    <2>2. d \in Calls /\ wait[d] \in Nat /\ owed[AdvertiserOf[d]] \in Nat
      BY DEF Typed
    <2>3. /\ owed'[AdvertiserOf[d]] = Less(owed[AdvertiserOf[d]])
          /\ wait'[d] = IF wait[d] > 0 THEN wait[d] - 1 ELSE wait[d]
      BY <1>1, <2>2 DEF Sleeping
    <2> QED BY <2>1, <2>2, <2>3 DEF Less
  <1>7. Waited'
    BY <1>1 DEF Cools, Waited, Less
  <1> QED BY <1>4, <1>5, <1>6, <1>7 DEF Cools

LEMMA CoolsAlways == Spec => []Cools
  <1>1. Init => Cools
    BY LimitAssumption, MappingAssumption
       DEF Init, Cools, Recorded, Carried, SleptOut, Waited, Owing
  <1>2. Typed /\ LockHeld /\ Cools /\ [Next]_vars => Cools'
    <2> SUFFICES ASSUME Typed, LockHeld, Cools, [Next]_vars PROVE Cools'
      OBVIOUS
    <2>1. CASE UNCHANGED vars
      BY <2>1 DEF vars, gate, Cools, Recorded, Carried, SleptOut, Waited, Owing, Served
    <2> QED BY <2>1, CoolsStep, CoolsCrash, CoolsTick DEF Next
  <1> QED BY <1>1, <1>2, TypedAlways, LockHeldAlways, PTL DEF Spec

(* CooldownIsKept: after an answer that demanded a cooldown, no command    *)
(* sends its advertiser a paced request before it is over, as whoever was  *)
(* told writes it down before the lock is given back                       *)
(* (qianchuan_request_control.go Acquire, release).                        *)
THEOREM CooldownKept == Spec => CooldownIsKept
  <1>1. Cools => [\A c \in Paced : Send(c) => owed[AdvertiserOf[c]] = 0]_vars
    BY DEF Cools, Waited, Send
  <1> QED BY <1>1, CoolsAlways, PTL DEF CooldownIsKept

-----------------------------------------------------------------------------
(* Counting                                                                *)

LEMMA CallsAreFinite ==
    ASSUME NEW S \in SUBSET Calls
    PROVE  IsFiniteSet(S) /\ Cardinality(S) \in Nat
  BY FiniteAssumption, FS_Subset, FS_CardinalityType

(* Sets of calls that agree but for one call.                              *)
LEMMA CountWithout ==
    ASSUME NEW S \in SUBSET Calls, NEW T \in SUBSET Calls, NEW c, T \ {c} = S \ {c}
    PROVE  Cardinality(T) = Cardinality(S) + Count(c \in T) - Count(c \in S)
  <1>1. Cardinality(S \ {c}) = IF c \in S THEN Cardinality(S) - 1 ELSE Cardinality(S)
    BY CallsAreFinite, FS_RemoveElement
  <1>2. Cardinality(S \ {c}) = IF c \in T THEN Cardinality(T) - 1 ELSE Cardinality(T)
    BY CallsAreFinite, FS_RemoveElement
  <1>3. Cardinality(S) \in Nat /\ Cardinality(T) \in Nat
    BY CallsAreFinite
  <1>4. CASE c \in S /\ c \in T
    BY <1>1, <1>2, <1>3, <1>4 DEF Count
  <1>5. CASE c \in S /\ c \notin T
    BY <1>1, <1>2, <1>3, <1>5 DEF Count
  <1>6. CASE c \notin S /\ c \in T
    BY <1>1, <1>2, <1>3, <1>6 DEF Count
  <1>7. CASE c \notin S /\ c \notin T
    BY <1>1, <1>2, <1>3, <1>7 DEF Count
  <1> QED BY <1>4, <1>5, <1>6, <1>7

-----------------------------------------------------------------------------
(* The budget                                                              *)

(* Calls that have reserved an attempt and not sent it yet.                *)
Reserved(p) == {c \in Calls : CommandOf[c] = p /\ phase[c] = "send"}

Budgeted ==
    /\ \A p \in Commands : sent[p] + Cardinality(Reserved(p)) <= used[p] /\ used[p] <= Limit[p]
    /\ \A c \in Calls : phase[c] = "swap" => seen[c] < Limit[CommandOf[c]]

(* A step of a call that neither reserves nor sends an attempt.            *)
LEMMA BudgetUntouched ==
    ASSUME Typed, Budgeted, used' = used, sent' = sent,
           \A d \in Calls : phase'[d] = "send" => phase[d] = "send",
           \A d \in Calls : phase'[d] = "swap" => phase[d] = "swap" /\ seen'[d] = seen[d]
    PROVE  Budgeted'
  <1>1. ASSUME NEW p \in Commands PROVE sent'[p] + Cardinality(Reserved(p)') <= used'[p] /\ used'[p] <= Limit[p]
    <2>1. Reserved(p)' \subseteq Reserved(p) /\ Reserved(p) \in SUBSET Calls
      BY DEF Reserved
    <2>2. /\ Cardinality(Reserved(p)') <= Cardinality(Reserved(p))
          /\ Cardinality(Reserved(p)') \in Nat /\ Cardinality(Reserved(p)) \in Nat
      BY <2>1, CallsAreFinite, FS_Subset
    <2> QED BY <2>2 DEF Budgeted, Typed
  <1> QED BY <1>1 DEF Budgeted

LEMMA BudgetSwap ==
    ASSUME Typed, Budgeted, NEW c \in Calls, SwapBudget(c)
    PROVE  Budgeted'
  <1> USE MappingAssumption, LimitAssumption
  <1> DEFINE p == CommandOf[c]
  <1>1. CASE used[p] # seen[c]
    <2>1. used' = used /\ sent' = sent /\ phase' = [phase EXCEPT ![c] = "reserve"]
          /\ seen' = [seen EXCEPT ![c] = 0]
      BY <1>1 DEF SwapBudget, Goto
    <2> QED BY <2>1, BudgetUntouched DEF Typed
  <1>2. CASE used[p] = seen[c]
    <2>1. /\ used' = [used EXCEPT ![p] = seen[c] + 1] /\ sent' = sent
          /\ phase' = [phase EXCEPT ![c] = "send"] /\ seen' = [seen EXCEPT ![c] = 0]
          /\ phase[c] = "swap"
      BY <1>2 DEF SwapBudget, Goto
    <2>2. seen[c] < Limit[p] /\ used[p] \in Nat /\ used'[p] = used[p] + 1
      BY <1>2, <2>1 DEF Budgeted, Typed
    <2>3. ASSUME NEW q \in Commands
          PROVE  sent'[q] + Cardinality(Reserved(q)') <= used'[q] /\ used'[q] <= Limit[q]
      <3>1. Reserved(q) \in SUBSET Calls /\ Reserved(q)' \in SUBSET Calls
        BY DEF Reserved
      <3>2. Reserved(q)' \ {c} = Reserved(q) \ {c} /\ c \notin Reserved(q) /\ (c \in Reserved(q)' <=> q = p)
        BY <2>1 DEF Reserved, Typed
      <3>3. Cardinality(Reserved(q)') = Cardinality(Reserved(q)) + Count(q = p)
        BY <3>1, <3>2, CountWithout, CallsAreFinite DEF Count
      <3>4. Cardinality(Reserved(q)) \in Nat /\ sent[q] \in Nat /\ used[q] \in Nat /\ Limit[q] \in Nat
        BY <3>1, CallsAreFinite DEF Typed
      <3>5. sent[q] + Cardinality(Reserved(q)) <= used[q] /\ used[q] <= Limit[q]
        BY DEF Budgeted
      <3>6. CASE q = p
        <4>1. Cardinality(Reserved(q)') = Cardinality(Reserved(q)) + 1
          BY <3>3, <3>6 DEF Count
        <4> QED BY <1>2, <2>1, <2>2, <3>4, <3>5, <3>6, <4>1
      <3>7. CASE q # p
        <4>1. Cardinality(Reserved(q)') = Cardinality(Reserved(q)) /\ used'[q] = used[q]
          BY <2>1, <3>3, <3>4, <3>7 DEF Count, Typed
        <4> QED BY <2>1, <3>5, <4>1
      <3> QED BY <3>6, <3>7
    <2>4. ASSUME NEW d \in Calls, phase'[d] = "swap" PROVE seen'[d] < Limit[CommandOf[d]]
      BY <2>1, <2>4 DEF Budgeted, Typed
    <2> QED BY <2>3, <2>4 DEF Budgeted
  <1> QED BY <1>1, <1>2

LEMMA BudgetSend ==
    ASSUME Typed, Budgeted, NEW c \in Calls, Send(c)
    PROVE  Budgeted'
  <1> USE MappingAssumption, LimitAssumption
  <1> DEFINE p == CommandOf[c]
  <1>1. /\ used' = used /\ sent' = [sent EXCEPT ![p] = sent[p] + 1] /\ seen' = seen
        /\ phase' = [phase EXCEPT ![c] = "sent"] /\ phase[c] = "send"
    BY DEF Send, Goto
  <1>2. ASSUME NEW q \in Commands
        PROVE  sent'[q] + Cardinality(Reserved(q)') <= used'[q] /\ used'[q] <= Limit[q]
    <2>1. Reserved(q) \in SUBSET Calls /\ Reserved(q)' \in SUBSET Calls
      BY DEF Reserved
    <2>2. Reserved(q)' \ {c} = Reserved(q) \ {c} /\ c \notin Reserved(q)' /\ (c \in Reserved(q) <=> q = p)
      BY <1>1 DEF Reserved, Typed
    <2>3. Cardinality(Reserved(q)') = Cardinality(Reserved(q)) - Count(q = p)
      BY <2>1, <2>2, CountWithout, CallsAreFinite DEF Count
    <2>4. Cardinality(Reserved(q)) \in Nat /\ sent[q] \in Nat
      BY <2>1, CallsAreFinite DEF Typed
    <2>5. sent[q] + Cardinality(Reserved(q)) <= used[q] /\ used[q] <= Limit[q]
      BY DEF Budgeted
    <2>6. CASE q = p
      <3>1. Cardinality(Reserved(q)') = Cardinality(Reserved(q)) - 1
        BY <2>3, <2>6 DEF Count
      <3>2. sent'[q] = sent[q] + 1
        BY <1>1, <2>6 DEF Typed
      <3> QED BY <1>1, <2>4, <2>5, <3>1, <3>2
    <2>7. CASE q # p
      <3>1. Cardinality(Reserved(q)') = Cardinality(Reserved(q)) /\ sent'[q] = sent[q]
        BY <1>1, <2>3, <2>4, <2>7 DEF Count, Typed
      <3> QED BY <1>1, <2>5, <3>1
    <2> QED BY <2>6, <2>7
  <1>3. ASSUME NEW d \in Calls, phase'[d] = "swap" PROVE seen'[d] < Limit[CommandOf[d]]
    BY <1>1, <1>3 DEF Budgeted, Typed
  <1> QED BY <1>2, <1>3 DEF Budgeted

LEMMA BudgetStep ==
    ASSUME Typed, Budgeted, NEW c \in Calls,
           CallStep(c) \/ GiveUp(c) \/ StopRetrying(c) \/ CloseUnsaved(c)
    PROVE  Budgeted'
  <1> USE MappingAssumption, LimitAssumption
  <1>1. CASE LoadBudget(c)
    <2>1. /\ used' = used /\ sent' = sent /\ phase' = [phase EXCEPT ![c] = "swap"]
          /\ seen' = [seen EXCEPT ![c] = used[CommandOf[c]]] /\ used[CommandOf[c]] < Limit[CommandOf[c]]
      BY <1>1 DEF LoadBudget, Goto
    <2>2. \A q \in Commands : Reserved(q)' \subseteq Reserved(q) /\ Reserved(q) \in SUBSET Calls
      BY <2>1 DEF Reserved, Typed
    <2>3. \A q \in Commands : /\ Cardinality(Reserved(q)') <= Cardinality(Reserved(q))
                              /\ Cardinality(Reserved(q)') \in Nat /\ Cardinality(Reserved(q)) \in Nat
      BY <2>2, CallsAreFinite, FS_Subset
    <2>4. \A q \in Commands : sent'[q] + Cardinality(Reserved(q)') <= used'[q] /\ used'[q] <= Limit[q]
      BY <2>1, <2>3 DEF Budgeted, Typed
    <2>5. \A d \in Calls : phase'[d] = "swap" => seen'[d] < Limit[CommandOf[d]]
      BY <2>1 DEF Budgeted, Typed
    <2> QED BY <2>4, <2>5 DEF Budgeted
  <1>2. CASE Begin(c) \/ AcquireScope(c) \/ AcquireFamily(c) \/ AcquireLock(c) \/ PassGate(c)
             \/ Answer(c) \/ StopRetrying(c)
    <2>1. /\ used' = used /\ sent' = sent /\ seen' = seen
          /\ \E q \in {"scope", "family", "lock", "reserve", "gate", "answered", "failed"} :
                phase' = [phase EXCEPT ![c] = q]
      BY <1>2 DEF Begin, AcquireScope, AcquireFamily, AcquireLock, PassGate, Answer, StopRetrying, Goto
    <2> QED BY <2>1, BudgetUntouched DEF Typed
  <1>3. CASE BudgetSpent(c) \/ GiveUp(c)
    <2>1. used' = used /\ sent' = sent /\ seen' = seen /\ \E retryable : FailAttempt(c, retryable)
      BY <1>3 DEF BudgetSpent, GiveUp, FailAttempt
    <2> QED BY <2>1, FailAttemptWakes, BudgetUntouched
  <1>4. CASE Close(c) \/ CloseUnsaved(c)
    <2>1. used' = used /\ sent' = sent /\ seen' = seen
      BY <1>4 DEF Close, CloseUnsaved
    <2> QED BY <1>4, <2>1, CloseWakes, BudgetUntouched
  <1> QED BY <1>1, <1>2, <1>3, <1>4, BudgetSwap, BudgetSend DEF CallStep

(* BudgetIsKept: no command sends more than its budget, however the loads  *)
(* and swaps of its calls interleave (control.go Budget.Reserve).          *)
THEOREM BudgetKept == Spec => []BudgetIsKept
  <1>1. Init => Budgeted
    <2> SUFFICES ASSUME Init PROVE Budgeted
      OBVIOUS
    <2>1. \A p \in Commands : Reserved(p) = {}
      BY DEF Init, Reserved
    <2>2. \A p \in Commands : Cardinality(Reserved(p)) = 0
      BY <2>1, FS_EmptySet
    <2>3. \A p \in Commands : sent[p] = 0 /\ used[p] = 0 /\ Limit[p] >= 0
      BY LimitAssumption DEF Init
    <2>4. \A c \in Calls : phase[c] # "swap"
      BY DEF Init
    <2> QED BY <2>2, <2>3, <2>4 DEF Budgeted
  <1>2. Typed /\ Budgeted /\ [Next]_vars => Budgeted'
    <2> SUFFICES ASSUME Typed, Budgeted, [Next]_vars PROVE Budgeted'
      OBVIOUS
    <2>1. CASE UNCHANGED vars \/ Tick
      BY <2>1, BudgetUntouched DEF vars, Tick
    <2>2. ASSUME NEW p \in Commands, Crash(p) PROVE Budgeted'
      <3>1. /\ used' = used /\ sent' = sent
            /\ \A d \in Calls : phase'[d] = "dead" \/ (phase'[d] = phase[d] /\ seen'[d] = seen[d])
        BY <2>2 DEF Crash
      <3> QED BY <3>1, BudgetUntouched
    <2> QED BY <2>1, <2>2, BudgetStep DEF Next
  <1>3. Typed /\ Budgeted => BudgetIsKept
    <2> SUFFICES ASSUME Typed, Budgeted, NEW p \in Commands PROVE sent[p] <= used[p] /\ used[p] <= Limit[p]
      BY DEF BudgetIsKept
    <2>1. Cardinality(Reserved(p)) \in Nat
      BY CallsAreFinite DEF Reserved
    <2> QED BY <2>1 DEF Typed, Budgeted
  <1> QED BY <1>1, <1>2, <1>3, TypedAlways, PTL DEF Spec

-----------------------------------------------------------------------------
(* The semaphores                                                          *)

ScopeHolders(s) == {c \in Calls : ScopeOf[c] = s /\ HoldsScope(c)}
FamilyHolders(f) == {c \in Calls : FamilyOf[c] = f /\ HoldsFamily(c)}

(* The semaphores count their holders and are never over their capacity.   *)
Slots ==
    /\ \A s \in Scopes : scopeUse[s] = Cardinality(ScopeHolders(s)) /\ scopeUse[s] <= ScopeSlots
    /\ \A f \in Families : familyUse[f] = Cardinality(FamilyHolders(f)) /\ familyUse[f] <= FamilySlots

(* What a step of c does to one semaphore: s is the key of c's, use and    *)
(* use1 its value, H and H1 its holders before and after.                  *)
LEMMA SlotCount ==
    ASSUME NEW H \in SUBSET Calls, NEW H1 \in SUBSET Calls, NEW c \in Calls, H1 \ {c} = H \ {c},
           NEW use1, use1 = Cardinality(H) + (IF c \in H1 THEN 1 ELSE 0) - (IF c \in H THEN 1 ELSE 0)
    PROVE  use1 = Cardinality(H1)
  <1>1. Cardinality(H1) = Cardinality(H) + Count(c \in H1) - Count(c \in H)
    BY CountWithout
  <1>2. Cardinality(H) \in Nat /\ Cardinality(H1) \in Nat
    BY CallsAreFinite
  <1>3. CASE c \in H /\ c \in H1
    BY <1>1, <1>2, <1>3 DEF Count
  <1>4. CASE c \in H /\ c \notin H1
    BY <1>1, <1>2, <1>4 DEF Count
  <1>5. CASE c \notin H /\ c \in H1
    BY <1>1, <1>2, <1>5 DEF Count
  <1>6. CASE c \notin H /\ c \notin H1
    BY <1>1, <1>2, <1>6 DEF Count
  <1> QED BY <1>3, <1>4, <1>5, <1>6

(* A step that moves one call, and gives or takes a slot exactly when the  *)
(* call starts or ceases to hold it.                                       *)
LEMMA SlotsMoved ==
    ASSUME Typed, Slots, NEW c \in Calls, \A d \in Calls : d # c => phase'[d] = phase[d],
           \A s \in Scopes : scopeUse'[s] = IF s = ScopeOf[c]
              THEN scopeUse[s] + (IF HoldsScope(c)' THEN 1 ELSE 0) - (IF HoldsScope(c) THEN 1 ELSE 0)
              ELSE scopeUse[s],
           \A f \in Families : familyUse'[f] = IF f = FamilyOf[c]
              THEN familyUse[f] + (IF HoldsFamily(c)' THEN 1 ELSE 0) - (IF HoldsFamily(c) THEN 1 ELSE 0)
              ELSE familyUse[f],
           HoldsScope(c)' => HoldsScope(c) \/ scopeUse[ScopeOf[c]] < ScopeSlots,
           HoldsFamily(c)' => HoldsFamily(c) \/ familyUse[FamilyOf[c]] < FamilySlots
    PROVE  Slots'
  <1> USE LimitAssumption
  <1>1. \A d \in Calls : d # c => (HoldsScope(d)' <=> HoldsScope(d)) /\ (HoldsFamily(d)' <=> HoldsFamily(d))
    BY DEF HoldsScope, HoldsFamily
  <1>2. ASSUME NEW s \in Scopes PROVE scopeUse'[s] = Cardinality(ScopeHolders(s)') /\ scopeUse'[s] <= ScopeSlots
    <2>1. ScopeHolders(s) \in SUBSET Calls /\ ScopeHolders(s)' \in SUBSET Calls
      BY DEF ScopeHolders
    <2>2. scopeUse[s] = Cardinality(ScopeHolders(s)) /\ scopeUse[s] <= ScopeSlots /\ scopeUse[s] \in Int
      BY DEF Slots, Typed
    <2>3. CASE s = ScopeOf[c]
      <3>1. ScopeHolders(s)' \ {c} = ScopeHolders(s) \ {c}
        BY <1>1 DEF ScopeHolders
      <3>2. (c \in ScopeHolders(s) <=> HoldsScope(c)) /\ (c \in ScopeHolders(s)' <=> HoldsScope(c)')
        BY <2>3 DEF ScopeHolders
      <3>3. scopeUse'[s] = Cardinality(ScopeHolders(s)) + (IF c \in ScopeHolders(s)' THEN 1 ELSE 0)
                           - (IF c \in ScopeHolders(s) THEN 1 ELSE 0)
        BY <2>2, <2>3, <3>2
      <3>4. scopeUse'[s] = Cardinality(ScopeHolders(s)')
        BY <2>1, <3>1, <3>3, SlotCount
      <3>5. scopeUse'[s] <= ScopeSlots
        BY <2>2, <2>3
      <3> QED BY <3>4, <3>5
    <2>4. CASE s # ScopeOf[c]
      <3>1. ScopeHolders(s)' = ScopeHolders(s)
        BY <1>1, <2>4 DEF ScopeHolders
      <3> QED BY <2>2, <2>4, <3>1
    <2> QED BY <2>3, <2>4
  <1>3. ASSUME NEW f \in Families PROVE familyUse'[f] = Cardinality(FamilyHolders(f)') /\ familyUse'[f] <= FamilySlots
    <2>1. FamilyHolders(f) \in SUBSET Calls /\ FamilyHolders(f)' \in SUBSET Calls
      BY DEF FamilyHolders
    <2>2. familyUse[f] = Cardinality(FamilyHolders(f)) /\ familyUse[f] <= FamilySlots /\ familyUse[f] \in Int
      BY DEF Slots, Typed
    <2>3. CASE f = FamilyOf[c]
      <3>1. FamilyHolders(f)' \ {c} = FamilyHolders(f) \ {c}
        BY <1>1 DEF FamilyHolders
      <3>2. (c \in FamilyHolders(f) <=> HoldsFamily(c)) /\ (c \in FamilyHolders(f)' <=> HoldsFamily(c)')
        BY <2>3 DEF FamilyHolders
      <3>3. familyUse'[f] = Cardinality(FamilyHolders(f)) + (IF c \in FamilyHolders(f)' THEN 1 ELSE 0)
                            - (IF c \in FamilyHolders(f) THEN 1 ELSE 0)
        BY <2>2, <2>3, <3>2
      <3>4. familyUse'[f] = Cardinality(FamilyHolders(f)')
        BY <2>1, <3>1, <3>3, SlotCount
      <3>5. familyUse'[f] <= FamilySlots
        BY <2>2, <2>3
      <3> QED BY <3>4, <3>5
    <2>4. CASE f # FamilyOf[c]
      <3>1. FamilyHolders(f)' = FamilyHolders(f)
        BY <1>1, <2>4 DEF FamilyHolders
      <3> QED BY <2>2, <2>4, <3>1
    <2> QED BY <2>3, <2>4
  <1> QED BY <1>2, <1>3 DEF Slots

(* The end of an attempt gives back what the call holds.                   *)
LEMMA SlotsReleased ==
    ASSUME Typed, Slots, NEW c \in Calls, ReleaseSlots(c),
           \A d \in Calls : d # c => phase'[d] = phase[d], phase'[c] \in {"done", "backoff", "failed"}
    PROVE  Slots'
  <1>1. ~HoldsScope(c)' /\ ~HoldsFamily(c)'
    BY DEF HoldsScope, HoldsFamily, InFlight
  <1>2. \A s \in Scopes : scopeUse'[s] = IF s = ScopeOf[c]
           THEN scopeUse[s] - (IF HoldsScope(c) THEN 1 ELSE 0) ELSE scopeUse[s]
    BY DEF ReleaseSlots, Count, Typed
  <1>3. \A f \in Families : familyUse'[f] = IF f = FamilyOf[c]
           THEN familyUse[f] - (IF HoldsFamily(c) THEN 1 ELSE 0) ELSE familyUse[f]
    BY DEF ReleaseSlots, Count, Typed
  <1>4. \A s \in Scopes : scopeUse'[s] = IF s = ScopeOf[c]
           THEN scopeUse[s] + (IF HoldsScope(c)' THEN 1 ELSE 0) - (IF HoldsScope(c) THEN 1 ELSE 0) ELSE scopeUse[s]
    BY <1>1, <1>2 DEF Typed
  <1>5. \A f \in Families : familyUse'[f] = IF f = FamilyOf[c]
           THEN familyUse[f] + (IF HoldsFamily(c)' THEN 1 ELSE 0) - (IF HoldsFamily(c) THEN 1 ELSE 0) ELSE familyUse[f]
    BY <1>1, <1>3 DEF Typed
  <1> QED BY <1>1, <1>4, <1>5, SlotsMoved

LEMMA SlotsStep ==
    ASSUME Typed, Slots, NEW c \in Calls,
           CallStep(c) \/ GiveUp(c) \/ StopRetrying(c) \/ CloseUnsaved(c)
    PROVE  Slots'
  <1> USE MappingAssumption
  <1>1. CASE AcquireScope(c)
    <2>1. /\ scopeUse' = [scopeUse EXCEPT ![ScopeOf[c]] = scopeUse[ScopeOf[c]] + 1]
          /\ familyUse' = familyUse /\ scopeUse[ScopeOf[c]] < ScopeSlots
          /\ phase' = [phase EXCEPT ![c] = "family"] /\ phase[c] = "scope"
      BY <1>1 DEF AcquireScope, Goto
    <2>2. HoldsScope(c)' /\ ~HoldsScope(c) /\ ~HoldsFamily(c)' /\ ~HoldsFamily(c)
      BY <2>1 DEF HoldsScope, HoldsFamily, InFlight, Typed
    <2>3. \A s \in Scopes : scopeUse'[s] = IF s = ScopeOf[c]
             THEN scopeUse[s] + (IF HoldsScope(c)' THEN 1 ELSE 0) - (IF HoldsScope(c) THEN 1 ELSE 0)
             ELSE scopeUse[s]
      BY <2>1, <2>2 DEF Typed
    <2>4. \A f \in Families : familyUse'[f] = IF f = FamilyOf[c]
             THEN familyUse[f] + (IF HoldsFamily(c)' THEN 1 ELSE 0) - (IF HoldsFamily(c) THEN 1 ELSE 0)
             ELSE familyUse[f]
      BY <2>1, <2>2 DEF Typed
    <2>5. \A d \in Calls : d # c => phase'[d] = phase[d]
      BY <2>1 DEF Typed
    <2> QED BY <2>1, <2>2, <2>3, <2>4, <2>5, SlotsMoved
  <1>2. CASE AcquireFamily(c)
    <2>1. /\ familyUse' = [familyUse EXCEPT ![FamilyOf[c]] = familyUse[FamilyOf[c]] + 1]
          /\ scopeUse' = scopeUse /\ familyUse[FamilyOf[c]] < FamilySlots
          /\ phase[c] = "family"
          /\ \E q \in {"lock", "reserve"} : phase' = [phase EXCEPT ![c] = q]
      BY <1>2 DEF AcquireFamily, Goto
    <2>2. HoldsScope(c)' /\ HoldsScope(c) /\ HoldsFamily(c)' /\ ~HoldsFamily(c)
      BY <2>1 DEF HoldsScope, HoldsFamily, InFlight, Typed
    <2>3. \A s \in Scopes : scopeUse'[s] = IF s = ScopeOf[c]
             THEN scopeUse[s] + (IF HoldsScope(c)' THEN 1 ELSE 0) - (IF HoldsScope(c) THEN 1 ELSE 0)
             ELSE scopeUse[s]
      BY <2>1, <2>2 DEF Typed
    <2>4. \A f \in Families : familyUse'[f] = IF f = FamilyOf[c]
             THEN familyUse[f] + (IF HoldsFamily(c)' THEN 1 ELSE 0) - (IF HoldsFamily(c) THEN 1 ELSE 0)
             ELSE familyUse[f]
      BY <2>1, <2>2 DEF Typed
    <2>5. \A d \in Calls : d # c => phase'[d] = phase[d]
      BY <2>1 DEF Typed
    <2> QED BY <2>1, <2>2, <2>3, <2>4, <2>5, SlotsMoved
  <1>3. CASE Begin(c) \/ AcquireLock(c) \/ PassGate(c) \/ LoadBudget(c) \/ SwapBudget(c)
             \/ Send(c) \/ Answer(c) \/ StopRetrying(c)
    <2>1. scopeUse' = scopeUse /\ familyUse' = familyUse
      BY <1>3 DEF Begin, AcquireLock, PassGate, LoadBudget, SwapBudget, Send, Answer, StopRetrying, slots
    <2>2. \E q : phase' = [phase EXCEPT ![c] = q]
      BY <1>3 DEF Begin, AcquireLock, PassGate, LoadBudget, SwapBudget, Send, Answer, StopRetrying, Goto
    <2>3. \/ phase[c] \in {"idle", "backoff"} /\ phase'[c] \in {"scope", "failed"}
          \/ phase[c] \in {"lock"} \cup Locked /\ phase'[c] \in Locked
      BY <1>3 DEF Begin, AcquireLock, PassGate, LoadBudget, SwapBudget, Send, Answer, StopRetrying,
                  Goto, Locked, Typed
    <2>4. (HoldsScope(c)' <=> HoldsScope(c)) /\ (HoldsFamily(c)' <=> HoldsFamily(c))
      BY <2>3 DEF HoldsScope, HoldsFamily, Locked, InFlight
    <2>5. \A d \in Calls : HoldsScope(d)' = HoldsScope(d) /\ HoldsFamily(d)' = HoldsFamily(d)
      BY <2>2, <2>4 DEF HoldsScope, HoldsFamily, Typed
    <2>6. /\ \A s \in Scopes : ScopeHolders(s)' = ScopeHolders(s)
          /\ \A f \in Families : FamilyHolders(f)' = FamilyHolders(f)
      BY <2>5 DEF ScopeHolders, FamilyHolders
    <2> QED BY <2>1, <2>6 DEF Slots
  <1>4. CASE BudgetSpent(c) \/ GiveUp(c)
    <2>1. ReleaseSlots(c) /\ \E retryable : FailAttempt(c, retryable)
      BY <1>4 DEF BudgetSpent, GiveUp, FailAttempt
    <2> QED BY <2>1, FailAttemptWakes, SlotsReleased
  <1>5. CASE Close(c) \/ CloseUnsaved(c)
    <2>1. ReleaseSlots(c)
      BY <1>5 DEF Close, CloseUnsaved
    <2> QED BY <1>5, <2>1, CloseWakes, SlotsReleased
  <1> QED BY <1>1, <1>2, <1>3, <1>4, <1>5 DEF CallStep

LEMMA SlotsCrash ==
    ASSUME Typed, Slots, NEW p \in Commands, Crash(p)
    PROVE  Slots'
  <1> USE MappingAssumption, LimitAssumption
  <1>1. /\ \A d \in Calls : phase'[d] = IF CommandOf[d] = p THEN "dead" ELSE phase[d]
        /\ \A s \in Scopes : scopeUse'[s] = IF \E d \in Calls : CommandOf[d] = p /\ ScopeOf[d] = s THEN 0 ELSE scopeUse[s]
        /\ \A f \in Families : familyUse'[f] = IF \E d \in Calls : CommandOf[d] = p /\ FamilyOf[d] = f THEN 0 ELSE familyUse[f]
    BY DEF Crash
  <1>2. \A d \in Calls : /\ HoldsScope(d)' <=> HoldsScope(d) /\ CommandOf[d] # p
                         /\ HoldsFamily(d)' <=> HoldsFamily(d) /\ CommandOf[d] # p
    BY <1>1 DEF HoldsScope, HoldsFamily, InFlight
  <1>3. ASSUME NEW s \in Scopes PROVE scopeUse'[s] = Cardinality(ScopeHolders(s)') /\ scopeUse'[s] <= ScopeSlots
    <2>1. CASE \E d \in Calls : CommandOf[d] = p /\ ScopeOf[d] = s
      <3>1. \A d \in Calls : ScopeOf[d] = s => CommandOf[d] = p
        BY <2>1
      <3>2. ScopeHolders(s)' = {}
        BY <1>2, <3>1 DEF ScopeHolders
      <3> QED BY <1>1, <2>1, <3>2, FS_EmptySet
    <2>2. CASE ~\E d \in Calls : CommandOf[d] = p /\ ScopeOf[d] = s
      <3>1. ScopeHolders(s)' = ScopeHolders(s)
        BY <1>2, <2>2 DEF ScopeHolders
      <3> QED BY <1>1, <2>2, <3>1 DEF Slots
    <2> QED BY <2>1, <2>2
  <1>4. ASSUME NEW f \in Families PROVE familyUse'[f] = Cardinality(FamilyHolders(f)') /\ familyUse'[f] <= FamilySlots
    <2>1. CASE \E d \in Calls : CommandOf[d] = p /\ FamilyOf[d] = f
      <3>1. \A d \in Calls : FamilyOf[d] = f => CommandOf[d] = p
        BY <2>1
      <3>2. FamilyHolders(f)' = {}
        BY <1>2, <3>1 DEF FamilyHolders
      <3> QED BY <1>1, <2>1, <3>2, FS_EmptySet
    <2>2. CASE ~\E d \in Calls : CommandOf[d] = p /\ FamilyOf[d] = f
      <3>1. FamilyHolders(f)' = FamilyHolders(f)
        BY <1>2, <2>2 DEF FamilyHolders
      <3> QED BY <1>1, <2>2, <3>1 DEF Slots
    <2> QED BY <2>1, <2>2
  <1> QED BY <1>3, <1>4 DEF Slots

LEMMA SlotsAlways == Spec => []Slots
  <1>1. Init => Slots
    <2> SUFFICES ASSUME Init PROVE Slots
      OBVIOUS
    <2>1. /\ \A s \in Scopes : ScopeHolders(s) = {}
          /\ \A f \in Families : FamilyHolders(f) = {}
      BY DEF Init, ScopeHolders, FamilyHolders, HoldsScope, HoldsFamily, InFlight
    <2>2. (\A s \in Scopes : scopeUse[s] = 0) /\ (\A f \in Families : familyUse[f] = 0)
      BY DEF Init
    <2> QED BY <2>1, <2>2, FS_EmptySet, LimitAssumption DEF Slots
  <1>2. Typed /\ Slots /\ [Next]_vars => Slots'
    <2> SUFFICES ASSUME Typed, Slots, [Next]_vars PROVE Slots'
      OBVIOUS
    <2>1. CASE UNCHANGED vars \/ Tick
      <3>1. phase' = phase /\ scopeUse' = scopeUse /\ familyUse' = familyUse
        BY <2>1 DEF vars, Tick, slots
      <3> QED BY <3>1 DEF Slots, ScopeHolders, FamilyHolders, HoldsScope, HoldsFamily
    <2> QED BY <2>1, SlotsStep, SlotsCrash DEF Next
  <1> QED BY <1>1, <1>2, TypedAlways, PTL DEF Spec

(* SlotsMatchHolders: no slot of the governor is leaked or given back      *)
(* twice, on any path out of an attempt (control.go Governor.Acquire).     *)
THEOREM SlotsMatch == Spec => []SlotsMatchHolders
  <1>1. Slots => SlotsMatchHolders
    BY DEF Slots, SlotsMatchHolders, ScopeHolders, FamilyHolders
  <1> QED BY <1>1, SlotsAlways, PTL

(* HoldersAreCounted: one request of an advertiser at a time, and slots    *)
(* that count their holders, over all commands and their crashes.          *)
THEOREM HoldersCounted == Spec => []HoldersAreCounted
  <1>1. OneRequestAtATime /\ SlotsMatchHolders => HoldersAreCounted
    BY DEF HoldersAreCounted
  <1> QED BY <1>1, OneRequest, SlotsMatch, PTL

(* TypeOK: every variable stays in its range, and every semaphore of the   *)
(* governor between empty and full.                                        *)
THEOREM RequestTypes == Spec => []TypeOK
  <1>1. Typed /\ Slots => TypeOK
    <2> SUFFICES ASSUME Typed, Slots PROVE TypeOK
      OBVIOUS
    <2>1. /\ \A s \in Scopes : Cardinality(ScopeHolders(s)) \in Nat
          /\ \A f \in Families : Cardinality(FamilyHolders(f)) \in Nat
      BY CallsAreFinite DEF ScopeHolders, FamilyHolders
    <2>2. scopeUse \in [Scopes -> 0..ScopeSlots] /\ familyUse \in [Families -> 0..FamilySlots]
      BY <2>1, LimitAssumption DEF Typed, Slots
    <2> QED BY <2>2 DEF Typed, TypeOK
  <1> QED BY <1>1, TypedAlways, SlotsAlways, PTL
=============================================================================
