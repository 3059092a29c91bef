------------------------ MODULE RuntimeUpdateProofs ------------------------
(* What TLAPS proves of RuntimeUpdate, for any processes, threads, bundles  *)
(* and bounds: every slot that a lease, an open session or the state file   *)
(* names is complete, and a switch of the session cuts no call and leaks    *)
(* no session.                                                              *)
EXTENDS RuntimeUpdate, NaturalsInduction, WellFoundedInduction, TLAPS

-----------------------------------------------------------------------------
(* The inductive invariant.                                                 *)

(* Where a thread holds resolve.lock, and where a lease on its candidate.   *)
Locking == {"install", "choose", "rejecting", "collect"}
Leasing == {"enter", "ensure", "restore", "exec"}

Typed ==
    /\ TypeOK
    /\ mu \in [Procs -> Threads \cup {None}]
    /\ current \in [Procs -> Nat]
    /\ sessions \in [Procs -> Seq(Session)]
    /\ seen \in [Procs -> SUBSET Bundles]
    /\ conn \in [Threads -> Nat]

(* The locks follow from the place a thread is at.                          *)
Held ==
    /\ \A t \in Threads : pc[t] \in Locking <=> lock = t
    /\ \A t \in Threads : pc[t] \in Leasing <=> t \in leases

(* What a thread that holds resolve.lock has found there still holds: what  *)
(* it may select is complete, what it may collect is not the recorded one.  *)
Found ==
    \A t \in Threads :
        /\ pc[t] = "choose" => \A b \in work[t] : slot[b] = "whole"
        /\ pc[t] = "collect" => state.current \notin work[t]

(* Whoever holds a lease has resolved a candidate.                          *)
Leases == \A t \in leases : cand[t] # None

(* A call is counted on its session; a session that is being closed is not  *)
(* the current one, and if it was retired its last call closes it alone.    *)
Joined ==
    \A t \in Threads :
        LET p == ProcOf[t] IN
        /\ pc[t] \in {"call", "drop"} => conn[t] # 0 /\ t \in sessions[p][conn[t]].calls
        /\ pc[t] = "close" =>
              /\ conn[t] # 0 /\ conn[t] # current[p]
              /\ sessions[p][conn[t]].retired =>
                    /\ sessions[p][conn[t]].calls = {}
                    /\ \A u \in Threads :
                          ProcOf[u] = p /\ pc[u] = "close" /\ conn[u] = conn[t] => u = t

IInv == /\ Typed /\ Held /\ Found /\ Leases /\ Joined
        /\ LeasedSlotsExist /\ RecordedIsUsable /\ RetiredSessionsDrain

-----------------------------------------------------------------------------
(* Lemmas on what the host has installed.                                   *)

(* A set of positions of a sequence has a last one.                         *)
LEMMA LastOf ==
    ASSUME NEW n \in Nat, NEW S \in SUBSET (1..n), S # {}
    PROVE  \E x \in S : \A y \in S : y <= x
<1> DEFINE R == {r \in Nat : n - r \in S}
<1>1. R \subseteq Nat /\ R # {}
  <2>1. PICK x \in S : TRUE
    OBVIOUS
  <2>2. n - x \in R
    BY <2>1
  <2> QED BY <2>2
<1>2. IsWellFoundedOn(OpToRel(<, Nat), Nat)
  BY NatLessThanWellFounded
<1>3. PICK r \in R : \A y \in R : ~(<<y, r>> \in OpToRel(<, Nat))
  BY <1>1, <1>2, WFMin
<1>4. \A y \in R : ~(y < r)
  BY <1>1, <1>3 DEF OpToRel
<1>5. ASSUME NEW y \in S PROVE y <= n - r
  <2>1. n - y \in R /\ r \in Nat /\ y \in Nat
    OBVIOUS
  <2>2. ~(n - y < r)
    BY <1>4, <2>1
  <2> QED BY <2>1, <2>2
<1> QED BY <1>5

(* The fingerprint names an installed bundle.                               *)
LEMMA DiscoveredInstalled ==
    ASSUME cache \in Seq(Bundles), cache # <<>>
    PROVE  Discovered \in Bundles
<1> DEFINE n == Len(cache)
           Best(k, i) == \A j \in 1..k : Version[cache[j]] <= Version[cache[i]]
           R == {k \in 1..n : \E i \in 1..k : Best(k, i)}
<1>1. n \in Nat /\ n # 0 /\ DOMAIN cache = 1..n /\ \A i \in 1..n : cache[i] \in Bundles
  OBVIOUS
<1> HIDE DEF n
<1>2. \A i \in 1..n : Version[cache[i]] \in Nat
  BY <1>1, VersionAssumption
<1>3. 1 \in R
  BY <1>1, <1>2
<1>4. PICK k \in 1..n : k \in R /\ k + 1 \notin R
  <2>1. R \in SUBSET (1..n) /\ R # {}
    BY <1>3
  <2> HIDE DEF R
  <2>2. PICK k \in R : \A y \in R : y <= k
    BY <1>1, <2>1, LastOf
  <2>3. k \in 1..n /\ ~(k + 1 <= k)
    BY <1>1, <2>1
  <2> QED BY <2>2, <2>3
<1>5. PICK i \in 1..k : Best(k, i)
  BY <1>4
<1>6. k = n
  <2>1. SUFFICES ASSUME k < n PROVE FALSE
    BY <1>1
  <2>2. CASE Version[cache[k + 1]] <= Version[cache[i]]
    <3>1. Best(k + 1, i)
      BY <1>5, <2>1, <2>2
    <3>2. k + 1 \in R
      BY <1>1, <2>1, <3>1
    <3> QED BY <1>4, <3>2
  <2>3. CASE Version[cache[i]] <= Version[cache[k + 1]]
    <3>1. Best(k + 1, k + 1)
      BY <1>1, <1>2, <1>5, <2>1, <2>3
    <3>2. k + 1 \in R
      BY <1>1, <2>1, <3>1
    <3> QED BY <1>4, <3>2
  <2> QED BY <1>1, <1>2, <2>1, <2>2, <2>3
<1> DEFINE best == {j \in DOMAIN cache :
                      \A l \in DOMAIN cache : Version[cache[l]] <= Version[cache[j]]}
<1>7. i \in best /\ best \in SUBSET (1..n)
  BY <1>1, <1>5, <1>6
<1>8. \E j \in best : \A l \in best : l <= j
  BY <1>1, <1>7, LastOf
<1>9. (CHOOSE j \in best : \A l \in best : l <= j) \in 1..n
  BY <1>7, <1>8
<1> QED BY <1>1, <1>9 DEF Discovered

LEMMA SourcesAreBundles ==
    ASSUME TypeOK, NEW p \in Procs
    PROVE  Sources(p) \subseteq Bundles
BY DiscoveredInstalled, ThreadAssumption DEF TypeOK, Sources

(* What validates is complete.                                              *)
LEMMA ValidIsWhole ==
    ASSUME TypeOK, NEW b, TRUE \in Validations(b), b \in Bundles \cup {None}
    PROVE  b \in Bundles /\ b # None /\ slot[b] = "whole"
BY NoneAssumption DEF Validations, Whole

-----------------------------------------------------------------------------
(* Lemmas on the sessions of a proxy.                                       *)

(* The calls of one session change, or it is closed.                        *)
Recounted(p, i, X) ==
    /\ sessions' \in [Procs -> Seq(Session)]
    /\ \A q \in Procs : Len(sessions'[q]) = Len(sessions[q])
    /\ \A q \in Procs : \A j \in 1..Len(sessions[q]) :
          /\ sessions'[q][j].bundle = sessions[q][j].bundle
          /\ sessions'[q][j].retired = sessions[q][j].retired
          /\ sessions'[q][j].open = sessions[q][j].open
          /\ sessions'[q][j].calls = IF q = p /\ j = i THEN X ELSE sessions[q][j].calls

LEMMA EditCalls ==
    ASSUME Typed, NEW p \in Procs, NEW i \in 1..Len(sessions[p]),
           NEW X \in SUBSET Threads, sessions' = [sessions EXCEPT ![p][i].calls = X]
    PROVE  Recounted(p, i, X)
<1> DEFINE r == [sessions[p][i] EXCEPT !.calls = X]
<1>1. sessions[p][i] \in Session
  BY DEF Typed
<1>2. r \in Session /\ r.bundle = sessions[p][i].bundle /\ r.calls = X
      /\ r.retired = sessions[p][i].retired /\ r.open = sessions[p][i].open
  BY <1>1 DEF Session
<1> DEFINE s == [sessions[p] EXCEPT ![i] = r]
<1>3. sessions' = [sessions EXCEPT ![p] = s]
  OBVIOUS
<1> HIDE DEF r
<1>4. s \in Seq(Session) /\ Len(s) = Len(sessions[p])
      /\ \A j \in 1..Len(sessions[p]) : s[j] = IF j = i THEN r ELSE sessions[p][j]
  BY <1>2 DEF Typed
<1> HIDE DEF s
<1>5. /\ sessions' \in [Procs -> Seq(Session)]
      /\ \A q \in Procs : Len(sessions'[q]) = Len(sessions[q])
      /\ \A q \in Procs : \A j \in 1..Len(sessions[q]) :
            sessions'[q][j] = IF q = p /\ j = i THEN r ELSE sessions[q][j]
  BY <1>3, <1>4 DEF Typed
<1> QED BY <1>2, <1>5 DEF Recounted

Closed(p, i) ==
    /\ sessions' \in [Procs -> Seq(Session)]
    /\ \A q \in Procs : Len(sessions'[q]) = Len(sessions[q])
    /\ \A q \in Procs : \A j \in 1..Len(sessions[q]) :
          /\ sessions'[q][j].bundle = sessions[q][j].bundle
          /\ sessions'[q][j].calls = sessions[q][j].calls
          /\ sessions'[q][j].retired = sessions[q][j].retired
          /\ q = p /\ j = i => ~sessions'[q][j].open
          /\ q # p \/ j # i => sessions'[q][j] = sessions[q][j]

LEMMA EditOpen ==
    ASSUME Typed, NEW p \in Procs, NEW i \in 1..Len(sessions[p]),
           sessions' = [sessions EXCEPT ![p][i].open = FALSE]
    PROVE  Closed(p, i)
<1> DEFINE r == [sessions[p][i] EXCEPT !.open = FALSE]
<1>1. sessions[p][i] \in Session
  BY DEF Typed
<1>2. r \in Session /\ r.bundle = sessions[p][i].bundle /\ r.calls = sessions[p][i].calls
      /\ r.retired = sessions[p][i].retired /\ r.open = FALSE
  BY <1>1 DEF Session
<1> DEFINE s == [sessions[p] EXCEPT ![i] = r]
<1>3. sessions' = [sessions EXCEPT ![p] = s]
  OBVIOUS
<1> HIDE DEF r
<1>4. s \in Seq(Session) /\ Len(s) = Len(sessions[p])
      /\ \A j \in 1..Len(sessions[p]) : s[j] = IF j = i THEN r ELSE sessions[p][j]
  BY <1>2 DEF Typed
<1> HIDE DEF s
<1>5. /\ sessions' \in [Procs -> Seq(Session)]
      /\ \A q \in Procs : Len(sessions'[q]) = Len(sessions[q])
      /\ \A q \in Procs : \A j \in 1..Len(sessions[q]) :
            sessions'[q][j] = IF q = p /\ j = i THEN r ELSE sessions[q][j]
  BY <1>3, <1>4 DEF Typed
<1>6. ASSUME NEW q \in Procs, NEW j \in 1..Len(sessions[q])
      PROVE  /\ sessions'[q][j].bundle = sessions[q][j].bundle
             /\ sessions'[q][j].calls = sessions[q][j].calls
             /\ sessions'[q][j].retired = sessions[q][j].retired
             /\ q = p /\ j = i => ~sessions'[q][j].open
             /\ q # p \/ j # i => sessions'[q][j] = sessions[q][j]
  <2>1. CASE q = p /\ j = i
    BY <1>2, <1>5, <2>1
  <2>2. CASE ~(q = p /\ j = i)
    BY <1>5, <2>2
  <2> QED BY <2>1, <2>2
<1> QED BY <1>5, <1>6 DEF Closed

(* A call joins the current session of its proxy.                           *)
LEMMA JoinCounts ==
    ASSUME Typed, NEW t \in Threads, Current(t) # 0, Join(t)
    PROVE  LET p == ProcOf[t] IN
           /\ current[p] \in 1..Len(sessions[p])
           /\ Recounted(p, current[p], sessions[p][current[p]].calls \cup {t})
<1> DEFINE p == ProcOf[t]
           i == current[p]
           X == sessions[p][i].calls \cup {t}
<1>1. p \in Procs /\ i \in 1..Len(sessions[p])
  BY ThreadAssumption DEF Typed, TypeOK, Current
<1>2. sessions[p][i] \in Session
  BY <1>1 DEF Typed
<1>3. X \in SUBSET Threads
  BY <1>2 DEF Session
<1>4. sessions' = [sessions EXCEPT ![p][i].calls = X]
  BY DEF Join
<1> QED BY <1>1, <1>3, <1>4, EditCalls

(* A call leaves the session it was counted on.                             *)
LEMMA DropCounts ==
    ASSUME Typed, Joined, NEW t \in Threads, CallDrops(t)
    PROVE  LET p == ProcOf[t] IN
           /\ p \in Procs /\ conn[t] \in 1..Len(sessions[p])
           /\ t \in sessions[p][conn[t]].calls
           /\ Recounted(p, conn[t], sessions[p][conn[t]].calls \ {t})
<1> DEFINE p == ProcOf[t]
           i == conn[t]
           X == sessions[p][i].calls \ {t}
<1>1. p \in Procs /\ i \in 1..Len(sessions[p])
  BY ThreadAssumption DEF Typed, TypeOK, Joined, CallDrops
<1>2. sessions[p][i] \in Session
  BY <1>1 DEF Typed
<1>3. X \in SUBSET Threads
  BY <1>2 DEF Session
<1>4. sessions' = [sessions EXCEPT ![p][i].calls = X]
  BY DEF CallDrops
<1> QED BY <1>1, <1>3, <1>4, EditCalls DEF Joined, CallDrops

(* A session is closed.                                                     *)
LEMMA CloseCounts ==
    ASSUME Typed, Joined, NEW t \in Threads, SessionCloses(t)
    PROVE  LET p == ProcOf[t] IN
           p \in Procs /\ conn[t] \in 1..Len(sessions[p]) /\ Closed(p, conn[t])
<1>1. ProcOf[t] \in Procs /\ conn[t] \in 1..Len(sessions[ProcOf[t]])
  BY ThreadAssumption DEF Typed, TypeOK, Joined, SessionCloses
<1> QED BY <1>1, EditOpen DEF SessionCloses

LEMMA RetiredRecord ==
    ASSUME NEW r \in Session
    PROVE  [r EXCEPT !.retired = TRUE, !.open = r.calls # {}] =
           [bundle |-> r.bundle, calls |-> r.calls, retired |-> TRUE, open |-> r.calls # {}]
<1> DEFINE b == r.calls # {}
           e == [r EXCEPT !.retired = TRUE, !.open = b]
<1>1. b \in BOOLEAN
  OBVIOUS
<1>2. e \in Session
  BY DEF Session
<1>3. e.bundle = r.bundle /\ e.calls = r.calls /\ e.retired = TRUE /\ e.open = b
  BY DEF Session
<1> HIDE DEF b, e
<1>4. e = [bundle |-> r.bundle, calls |-> r.calls, retired |-> TRUE, open |-> b]
  BY <1>2, <1>3 DEF Session
<1> QED BY <1>4 DEF b, e

(* A switch retires the current session and appends a new one.              *)
Switched(t, q, j) ==
    LET p == ProcOf[t]
        old == sessions[q][j] IN
    IF q = p /\ j = Len(sessions[p]) + 1
    THEN [bundle |-> cand[t], calls |-> {}, retired |-> FALSE, open |-> TRUE]
    ELSE IF q = p /\ j = current[p]
    THEN [bundle |-> old.bundle, calls |-> old.calls, retired |-> TRUE,
          open |-> old.calls # {}]
    ELSE old

LEMMA SwitchSessions ==
    ASSUME Typed, NEW t \in Threads, cand[t] \in Bundles, SessionSwitched(t)
    PROVE  LET p == ProcOf[t] IN
           /\ sessions' \in [Procs -> Seq(Session)]
           /\ current' = [current EXCEPT ![p] = Len(sessions[p]) + 1]
           /\ \A q \in Procs : Len(sessions'[q]) =
                 IF q = p THEN Len(sessions[p]) + 1 ELSE Len(sessions[q])
           /\ \A q \in Procs : \A j \in 1..Len(sessions'[q]) :
                 sessions'[q][j] = Switched(t, q, j)
<1> DEFINE p == ProcOf[t]
           n == Len(sessions[p])
           old == [s \in DOMAIN sessions[p] |->
                  IF s # current[p] THEN sessions[p][s]
                  ELSE [sessions[p][s] EXCEPT !.retired = TRUE,
                                              !.open = sessions[p][s].calls # {}]]
           new == [bundle |-> cand[t], calls |-> {}, retired |-> FALSE, open |-> TRUE]
           both == Append(old, new)
<1>1. p \in Procs /\ n \in Nat /\ DOMAIN sessions[p] = 1..n
  BY ThreadAssumption DEF Typed
<1>2. new \in Session
  BY DEF Session
<1>3. \A j \in 1..n : sessions[p][j] \in Session
  BY <1>1 DEF Typed
<1>4. \A j \in 1..n : old[j] \in Session
  BY <1>1, <1>3 DEF Session
<1>5. old \in Seq(Session) /\ Len(old) = n
  <2>1. old \in [1..n -> Session]
    BY <1>1, <1>4
  <2> HIDE DEF old
  <2> QED BY <1>1, <2>1
<1>6. both \in Seq(Session) /\ Len(both) = n + 1 /\ both[n + 1] = new
      /\ \A j \in 1..n : both[j] = old[j]
  <2> HIDE DEF old, new
  <2> QED BY <1>1, <1>2, <1>5
<1>7. sessions' = [sessions EXCEPT ![p] = both] /\ current' = [current EXCEPT ![p] = n + 1]
  BY <1>5 DEF SessionSwitched
<1>8. \A j \in 1..n : old[j] = IF j # current[p] THEN sessions[p][j] ELSE
          [bundle |-> sessions[p][j].bundle, calls |-> sessions[p][j].calls,
           retired |-> TRUE, open |-> sessions[p][j].calls # {}]
  BY <1>1, <1>3, RetiredRecord
<1> HIDE DEF old, both, n, p
<1>9. sessions' \in [Procs -> Seq(Session)]
  BY <1>1, <1>6, <1>7 DEF Typed
<1>10. ASSUME NEW q \in Procs
       PROVE  Len(sessions'[q]) = IF q = p THEN n + 1 ELSE Len(sessions[q])
  BY <1>1, <1>6, <1>7 DEF Typed
<1>11. ASSUME NEW q \in Procs, NEW j \in 1..Len(sessions'[q])
       PROVE  sessions'[q][j] = Switched(t, q, j)
  <2>1. CASE q = p
    <3>1. sessions'[q] = both /\ j \in 1..(n + 1)
      BY <1>1, <1>6, <1>7, <2>1 DEF Typed
    <3>2. CASE j = n + 1
      BY <1>1, <1>6, <2>1, <3>1, <3>2 DEF Switched, n, p
    <3>3. CASE j \in 1..n
      BY <1>1, <1>6, <1>8, <2>1, <3>1, <3>3 DEF Switched, n, p
    <3> QED BY <1>1, <3>1, <3>2, <3>3
  <2>2. CASE q # p
    BY <1>1, <1>7, <2>2 DEF Typed, Switched, p
  <2> QED BY <2>1, <2>2
<1> QED BY <1>7, <1>9, <1>10, <1>11 DEF p, n

-----------------------------------------------------------------------------
(* Each part of the invariant is kept by each action.                       *)

(* A thread takes a step from one place to the next.                        *)
LEMMA HeldMove ==
    ASSUME Typed, Held, NEW t \in Threads, NEW q \in Places, Go(t, q),
           IF q \in Locking THEN lock' = t /\ lock \in {t, None}
                            ELSE lock' = IF lock = t THEN None ELSE lock,
           leases' = IF q \in Leasing THEN leases \cup {t} ELSE leases \ {t}
    PROVE  Held'
BY NoneAssumption DEF Held, Typed, TypeOK, Go

LEMMA NextPlaces ==
    ASSUME NEW t \in Threads
    PROVE  /\ AfterEnsure(t) \in {"idle", "pick"} /\ AfterError(t) \in {"idle", "done"}
           /\ AfterPrune(t) => \E q \in {"idle", "pick", "exit", "done"} : Go(t, q)
BY DEF AfterEnsure, AfterError, AfterPrune

(* The places follow the locks.                                            *)
LEMMA HeldStep == ASSUME Typed, Held, Next PROVE Held'
<1>1. CASE HostInstalls
  BY <1>1 DEF Held, HostInstalls
<1>2. ASSUME NEW t \in Threads, Starts(t) PROVE Held'
  <2> ProcOf[t] \in Procs
    BY ThreadAssumption
  <2>1. CASE CallStarts(t)
    <3>1. PICK q \in {"resolve", "call"} : Go(t, q)
      BY <2>1, NextPlaces DEF Join, CallStarts
    <3> QED BY <2>1, <3>1, HeldMove DEF Held, Places, Locking, Leasing,
       Waiting, CallStarts
  <2>2. CASE MonitorWakes(t)
    BY <2>2 DEF Held, Typed, TypeOK, Go, Locking, Leasing, MonitorWakes
  <2>3. CASE ProxyCloses(t)
    BY <2>3 DEF Held, Typed, TypeOK, Go, Locking, Leasing, ProxyCloses
  <2> QED BY <1>2, <2>1, <2>2, <2>3 DEF Starts
<1>3. ASSUME NEW t \in Threads, ThreadStep(t) PROVE Held'
  <2> ProcOf[t] \in Procs
    BY ThreadAssumption
  <2>1. CASE CallPicks(t)
    <3>1. PICK q \in {"done", "call"} : Go(t, q)
      BY <2>1, NextPlaces DEF Join, CallPicks
    <3> QED BY <2>1, <3>1, HeldMove DEF Held, Places, Locking, Leasing,
       Waiting, CallPicks
  <2>2. CASE CallAnswered(t)
    BY <2>2 DEF Held, Typed, TypeOK, Go, Locking, Leasing, CallAnswered
  <2>3. CASE CallDrops(t)
    <3>1. PICK q \in {"done", "close"} : Go(t, q)
      BY <2>3, NextPlaces DEF CallDrops
    <3> QED BY <2>3, <3>1, HeldMove DEF Held, Places, Locking, Leasing,
       Waiting, CallDrops
  <2>4. CASE SessionCloses(t)
    BY <2>4 DEF Held, Typed, TypeOK, Go, Locking, Leasing, SessionCloses
  <2>5. CASE CommandEnds(t)
    BY <2>5 DEF Held, Typed, TypeOK, Go, Locking, Leasing, ReleaseLease,
       CommandEnds
  <2>6. CASE ProxyExits(t)
    BY <2>6, ThreadAssumption, NoneAssumption DEF Held, Typed, TypeOK, Go,
       Locking, Leasing, Ends, ProxyExits
  <2>7. CASE LockTaken(t)
    <3>1. PICK q \in {"install", "rejecting", "collect"} : Go(t, q)
      BY <2>7, NextPlaces DEF Waiting, LockTaken
    <3> QED BY <2>7, <3>1, HeldMove DEF Held, Places, Locking, Leasing,
       Waiting, LockTaken
  <2>8. CASE LockTimesOut(t)
    <3>1. PICK q \in {"idle", "pick", "exit", "done"} : Go(t, q)
      BY <2>8, NextPlaces DEF LockTimesOut
    <3> QED BY <2>8, <3>1, HeldMove DEF Held, Places, Locking, Leasing,
       Waiting, LockTimesOut
  <2>9. CASE RecordedReused(t)
    <3>1. PICK q \in {"restore", "exec", "enter"} : Go(t, q)
      BY <2>9, NextPlaces DEF Leave, RecordedReused
    <3> QED BY <2>9, <3>1, HeldMove DEF Held, Places, Locking, Leasing,
       Waiting, Leave, RecordedReused
  <2>10. CASE SlotMovedAside(t)
    BY <2>10 DEF Held, Typed, TypeOK, Go, Locking, Leasing, SlotMovedAside
  <2>11. CASE SourcesInstalled(t)
    BY <2>11 DEF Held, Typed, TypeOK, Go, Locking, Leasing, SourcesInstalled
  <2>12. CASE CandidateChosen(t)
    <3>1. CASE \E b : Leave(t, b)
      <4>1. PICK q \in {"restore", "exec", "enter"} : Go(t, q)
        BY <3>1 DEF Leave
      <4> QED BY <2>12, <3>1, <4>1, HeldMove DEF Held, Leave, Places,
         Locking, Leasing, CandidateChosen
    <3>2. CASE lock' = None /\ Go(t, AfterError(t)) /\ leases' = leases
      BY <2>12, <3>2, NextPlaces, HeldMove DEF Held, Places, Locking,
         Leasing, CandidateChosen
    <3> QED BY <2>12, <3>1, <3>2 DEF CandidateChosen
  <2>13. CASE MuTaken(t)
    BY <2>13 DEF Held, Typed, TypeOK, Go, Locking, Leasing, MuTaken
  <2>14. CASE AlreadyCurrent(t)
    <3>1. PICK q \in {"idle", "pick"} : Go(t, q)
      BY <2>14, NextPlaces DEF AlreadyCurrent
    <3> QED BY <2>14, <3>1, HeldMove DEF Held, Places, Locking, Leasing,
       Waiting, ReleaseLease, AlreadyCurrent
  <2>15. CASE CandidateConnects(t)
    BY <2>15 DEF Held, Typed, TypeOK, Go, Locking, Leasing, ReleaseLease,
       SessionSwitched, CandidateConnects
  <2>16. CASE ContractDiffers(t)
    <3>1. PICK q \in {"idle", "pick", "reject"} : Go(t, q)
      BY <2>16, NextPlaces DEF ContractDiffers
    <3> QED BY <2>16, <3>1, HeldMove DEF Held, Places, Locking, Leasing,
       Waiting, ReleaseLease, ContractDiffers
  <2>17. CASE CandidateFails(t)
    BY <2>17 DEF Held, Typed, TypeOK, Go, Locking, Leasing, ReleaseLease,
       CandidateFails
  <2>18. CASE Rejected(t)
    <3>1. PICK q \in {"idle", "pick", "done", "again"} : Go(t, q)
      BY <2>18, NextPlaces DEF Rejected
    <3> QED BY <2>18, <3>1, HeldMove DEF Held, Places, Locking, Leasing,
       Waiting, Rejected
  <2>19. CASE RestoredConnects(t)
    BY <2>19 DEF Held, Typed, TypeOK, Go, Locking, Leasing, ReleaseLease,
       SessionSwitched, RestoredConnects
  <2>20. CASE RestoredFails(t)
    <3>1. PICK q \in {"idle", "done"} : Go(t, q)
      BY <2>20, NextPlaces DEF RestoredFails
    <3> QED BY <2>20, <3>1, HeldMove DEF Held, Places, Locking, Leasing,
       Waiting, ReleaseLease, RestoredFails
  <2>21. CASE SlotKept(t)
    BY <2>21 DEF Held, Typed, TypeOK, Go, Locking, Leasing, SlotKept
  <2>22. CASE SlotRemoved(t)
    BY <2>22 DEF Held, Typed, TypeOK, Go, Locking, Leasing, SlotRemoved
  <2>23. CASE Collected(t)
    <3>1. PICK q \in {"idle", "pick", "exit", "done"} : Go(t, q)
      BY <2>23, NextPlaces DEF Collected
    <3> QED BY <2>23, <3>1, HeldMove DEF Held, Places, Locking, Leasing,
       Waiting, Collected
  <2> QED BY <1>3, <2>1, <2>2, <2>3, <2>4, <2>5, <2>6, <2>7, <2>8, <2>9,
     <2>10, <2>11, <2>12, <2>13, <2>14, <2>15, <2>16, <2>17, <2>18, <2>19,
     <2>20, <2>21, <2>22, <2>23 DEF ThreadStep
<1>4. ASSUME NEW p \in Procs, ProcessStarts(p) PROVE Held'
  BY <1>4 DEF Held, Typed, TypeOK, Go, Locking, Leasing, ProcessStarts
<1>5. ASSUME NEW p \in Procs, Crash(p) PROVE Held'
  BY <1>5, ThreadAssumption, NoneAssumption DEF Held, Typed, TypeOK, Go,
     Locking, Leasing, Ends, Crash
<1> QED BY <1>1, <1>2, <1>3, <1>4, <1>5 DEF Next

(* A thread with a lease has a bundle that is complete.                     *)
LEMMA InstalledBundles == ASSUME Typed PROVE Installed \subseteq Bundles
BY DEF Typed, TypeOK, Installed, ToSet

LEMMA LeasedCandidate ==
    ASSUME Typed, Held, Leases, LeasedSlotsExist, NEW t \in Threads, pc[t] \in Leasing
    PROVE  t \in leases /\ cand[t] \in Bundles /\ slot[cand[t]] = "whole"
BY DEF Typed, TypeOK, Held, Leases, LeasedSlotsExist

LEMMA CurrentBundleTyped ==
    ASSUME Typed, NEW t \in Threads
    PROVE  CurrentBundle(t) \in Bundles \cup {None}
<1>1. CASE Current(t) # 0
  <2>1. sessions[ProcOf[t]][Current(t)] \in Session
    BY <1>1, ThreadAssumption DEF Typed, TypeOK, Current
  <2> QED BY <1>1, <2>1 DEF CurrentBundle, Session
<1> QED BY <1>1 DEF CurrentBundle

(* What is left of a process that ends.                                     *)
LEMMA EndsTyped ==
    ASSUME Typed, NEW p \in Procs, Ends(p), crashes' \in 0..MaxCrashes
    PROVE  Typed'
<1>1. sessions' \in [Procs -> Seq(Session)] /\ sessions'[p] = <<>>
      /\ \A q \in Procs \ {p} : sessions'[q] = sessions[q]
  BY DEF Ends, Typed
<1>2. current' \in [Procs -> Nat] /\ \A q \in Procs : current'[q] \in 0..Len(sessions'[q])
  BY <1>1 DEF Ends, Typed, TypeOK
<1>3. conn' \in [Threads -> Nat] /\ \A t \in Threads : conn'[t] \in 0..Len(sessions'[ProcOf[t]])
  BY <1>1, ThreadAssumption DEF Ends, Typed, TypeOK
<1>4. mu' \in [Procs -> Threads \cup {None}]
      /\ \A q \in Procs : mu'[q] \in {t \in Threads : ProcOf[t] = q} \cup {None}
  BY DEF Ends, Typed, TypeOK
<1>5. seen' \in [Procs -> SUBSET Bundles]
  BY DEF Ends, Typed
<1>6. pc' \in [Threads -> Places] /\ leases' \subseteq Threads /\ torn' \subseteq Procs
      /\ lock' \in Threads \cup {None} /\ cand' \in [Threads -> Bundles \cup {None}]
      /\ work' \in [Threads -> SUBSET Bundles] /\ restored' \in [Threads -> Bundles \cup {None}]
  BY DEF Ends, Typed, TypeOK, Places
<1> QED BY <1>1, <1>2, <1>3, <1>4, <1>5, <1>6 DEF Ends, Typed, TypeOK, files

(* What a selection comes to: nothing can be run, or a complete bundle is   *)
(* recorded, with a complete one to roll back to.                           *)
States == [current : Bundles \cup {None}, previous : Bundles \cup {None},
           rejected : Bundles \cup {None}]

Nothing(t) ==
    /\ UNCHANGED <<state, cand, leases>> /\ lock' = None /\ Go(t, AfterError(t))
    /\ mu' = mu \/ ReleaseMu(t)

Selected(t, b) ==
    /\ slot[b] = "whole" /\ Leave(t, b) /\ mu' = mu
    /\ state' \in States
    /\ \/ state' = state
       \/ /\ state'.current = b
          /\ state'.previous # None => slot[state'.previous] = "whole"

LEMMA ChosenIsWhole ==
    ASSUME Typed, Found, NEW t \in Threads, CandidateChosen(t)
    PROVE  Nothing(t) \/ \E b \in Bundles : Selected(t, b)
<1>1. PICK recorded \in Validations(state.current), again \in Validations(state.current),
           previous \in Validations(state.previous) :
        LET b == Selection(t, recorded, AcceptInstalled(Discovered, again)) IN
        IF b = None
        THEN /\ lock' = None /\ Go(t, AfterError(t))
             /\ IF HasMu(t) THEN ReleaseMu(t) ELSE UNCHANGED mu
             /\ UNCHANGED <<state, cand, leases>>
        ELSE /\ state' = IF b = state.current THEN state ELSE
                  [current |-> b,
                   previous |-> RollbackFor(t, b, recorded, previous),
                   rejected |-> IF b = state.rejected THEN b ELSE None]
             /\ Leave(t, b) /\ UNCHANGED mu
  BY DEF CandidateChosen
<1> DEFINE b == Selection(t, recorded, AcceptInstalled(Discovered, again))
           back == RollbackFor(t, b, recorded, previous)
<1>8. IF b = None
      THEN /\ lock' = None /\ Go(t, AfterError(t))
           /\ IF HasMu(t) THEN ReleaseMu(t) ELSE UNCHANGED mu
           /\ UNCHANGED <<state, cand, leases>>
      ELSE /\ state' = IF b = state.current THEN state ELSE
                [current |-> b, previous |-> back,
                 rejected |-> IF b = state.rejected THEN b ELSE None]
           /\ Leave(t, b) /\ UNCHANGED mu
  BY <1>1
<1>2. /\ recorded => state.current \in Bundles /\ slot[state.current] = "whole"
      /\ previous => state.previous \in Bundles /\ slot[state.previous] = "whole"
  BY <1>1 DEF Validations, Whole, Typed, TypeOK
<1>3. \A c \in work[t] : c \in Bundles /\ slot[c] = "whole"
  BY DEF Found, Typed, TypeOK, CandidateChosen
<1>4. b # None => b \in Bundles /\ slot[b] = "whole"
  BY <1>2, <1>3 DEF Selection
<1>5. back # None => back \in Bundles /\ slot[back] = "whole"
  BY <1>2, <1>3 DEF RollbackFor
<1> HIDE DEF b, back
<1>6. CASE b = None
  BY <1>6, <1>8 DEF Nothing
<1>7. CASE b # None
  <2>1. /\ state' = IF b = state.current THEN state ELSE
                     [current |-> b, previous |-> back,
                      rejected |-> IF b = state.rejected THEN b ELSE None]
        /\ Leave(t, b) /\ mu' = mu
    BY <1>7, <1>8
  <2>2. state \in States
    BY DEF Typed, TypeOK, States
  <2>3. state' \in States /\ (state' = state \/ (state'.current = b /\ state'.previous = back))
    <3>1. CASE b = state.current
      <4>1. state' = state
        BY <2>1, <3>1
      <4> QED BY <2>2, <4>1
    <3>2. CASE b # state.current
      <4>1. state' = [current |-> b, previous |-> back,
                      rejected |-> IF b = state.rejected THEN b ELSE None]
        BY <2>1, <3>2
      <4> QED BY <1>4, <1>5, <1>7, <4>1 DEF States
    <3> QED BY <3>1, <3>2
  <2> QED BY <1>4, <1>5, <1>7, <2>1, <2>3 DEF Selected
<1> QED BY <1>6, <1>7

(* The bundle a thread leaves resolveLocked with.                           *)
LEMMA LeaveTyped ==
    ASSUME Typed, NEW t \in Threads, NEW b \in Bundles, Leave(t, b),
           UNCHANGED <<host, slot, alias, mu, proxy, restored, conn, torn>>,
           state' \in [current : Bundles \cup {None}, previous : Bundles \cup {None},
                       rejected : Bundles \cup {None}],
           work' \in [Threads -> SUBSET Bundles]
    PROVE  Typed'
BY DEF Leave, Typed, TypeOK, Places, Go, host, proxy

(* The types are kept.                                                      *)
LEMMA TypedStep == ASSUME Typed, Held, Found, Leases, Joined, LeasedSlotsExist, Next PROVE Typed'
<1>1. CASE HostInstalls
  <2>1. cache' \in Seq(Bundles) /\ cache' # <<>>
    <4>1. PICK b \in Bundles, keep \in BOOLEAN : cache' = Append(IF keep THEN cache ELSE <<>>, b)
      BY <1>1 DEF HostInstalls
    <4> DEFINE s == IF keep THEN cache ELSE <<>>
    <4>2. s \in Seq(Bundles) /\ cache' = Append(s, b)
      BY <4>1 DEF Typed, TypeOK
    <4> HIDE DEF s
    <4> QED BY <4>2
  <2>2. alias' \in [Bundles -> Bundles \cup {None}] /\ installs' \in 0..MaxInstalls
    BY <1>1, BoundAssumption DEF HostInstalls, Typed, TypeOK
  <2> QED BY <1>1, <2>1, <2>2 DEF Typed, TypeOK, locals, proxy, HostInstalls
<1>2. ASSUME NEW t \in Threads, Starts(t) PROVE Typed'
  <2> ProcOf[t] \in Procs
    BY ThreadAssumption
  <2>1. CASE CallStarts(t)
    <3>1. CASE Current(t) = 0
      BY <2>1, <3>1 DEF Typed, TypeOK, Places, Waiting, Go, host, files,
         CallStarts
    <3>2. CASE Current(t) # 0
      <4>1. Join(t)
        BY <2>1, <3>2 DEF CallStarts
      <4>2. current[ProcOf[t]] \in 1..Len(sessions[ProcOf[t]])
            /\ Recounted(ProcOf[t], current[ProcOf[t]], sessions[ProcOf[t]][current[ProcOf[t]]].calls \cup {t})
        BY <3>2, <4>1, JoinCounts
      <4>3. sessions' \in [Procs -> Seq(Session)] /\ \A q \in Procs : current[q] \in 0..Len(sessions'[q])
        BY <4>2 DEF Recounted, Typed, TypeOK
      <4>4. conn' \in [Threads -> Nat] /\ \A u \in Threads : conn'[u] \in 0..Len(sessions'[ProcOf[u]])
        <5>1. conn' = [conn EXCEPT ![t] = current[ProcOf[t]]]
          BY <4>1 DEF Join
        <5>2. \A q \in Procs : Len(sessions'[q]) = Len(sessions[q]) /\ Len(sessions[q]) \in Nat
          BY <4>2 DEF Recounted, Typed
        <5>3. conn \in [Threads -> Nat] /\ \A u \in Threads : conn[u] \in 0..Len(sessions[ProcOf[u]])
          BY DEF Typed, TypeOK
        <5>4. \A u \in Threads : conn[u] \in 0..Len(sessions'[ProcOf[u]])
          BY <5>2, <5>3, ThreadAssumption
        <5>5. current[ProcOf[t]] \in 0..Len(sessions'[ProcOf[t]]) /\ current[ProcOf[t]] \in Nat
          BY <4>3, ThreadAssumption DEF Typed
        <5> QED BY <5>1, <5>3, <5>4, <5>5
      <4> QED BY <2>1, <4>1, <4>3, <4>4 DEF Join, Typed, TypeOK, Places,
         Go, host, files, CallStarts
    <3> QED BY <2>1, <3>1, <3>2 DEF CallStarts
  <2>2. CASE MonitorWakes(t)
    BY <2>2, ThreadAssumption, InstalledBundles DEF Typed, TypeOK, Places,
       Waiting, Go, host, files, proxy, locals, MonitorWakes
  <2>3. CASE ProxyCloses(t)
    <3>1. pc' \in [Threads -> Places] /\ cand' \in [Threads -> Bundles \cup {None}]
      BY <2>3, CurrentBundleTyped DEF ProxyCloses, Typed, TypeOK, Places, Go
    <3>2. conn' \in [Threads -> Nat] /\ \A u \in Threads : conn'[u] \in 0..Len(sessions[ProcOf[u]])
      BY <2>3 DEF ProxyCloses, Current, Typed, TypeOK
    <3>3. current' \in [Procs -> Nat] /\ \A q \in Procs : current'[q] \in 0..Len(sessions[q])
      BY <2>3 DEF ProxyCloses, Typed, TypeOK
    <3> QED BY <2>3, <3>1, <3>2, <3>3 DEF Typed, TypeOK, host, files,
       ProxyCloses
  <2> QED BY <1>2, <2>1, <2>2, <2>3 DEF Starts
<1>3. ASSUME NEW t \in Threads, ThreadStep(t) PROVE Typed'
  <2> ProcOf[t] \in Procs
    BY ThreadAssumption
  <2>1. CASE CallPicks(t)
    <3>1. CASE Current(t) = 0
      BY <2>1, <3>1 DEF Typed, TypeOK, Places, Waiting, Go, host, files,
         CallPicks
    <3>2. CASE Current(t) # 0
      <4>1. Join(t)
        BY <2>1, <3>2 DEF CallPicks
      <4>2. current[ProcOf[t]] \in 1..Len(sessions[ProcOf[t]])
            /\ Recounted(ProcOf[t], current[ProcOf[t]], sessions[ProcOf[t]][current[ProcOf[t]]].calls \cup {t})
        BY <3>2, <4>1, JoinCounts
      <4>3. sessions' \in [Procs -> Seq(Session)] /\ \A q \in Procs : current[q] \in 0..Len(sessions'[q])
        BY <4>2 DEF Recounted, Typed, TypeOK
      <4>4. conn' \in [Threads -> Nat] /\ \A u \in Threads : conn'[u] \in 0..Len(sessions'[ProcOf[u]])
        <5>1. conn' = [conn EXCEPT ![t] = current[ProcOf[t]]]
          BY <4>1 DEF Join
        <5>2. \A q \in Procs : Len(sessions'[q]) = Len(sessions[q]) /\ Len(sessions[q]) \in Nat
          BY <4>2 DEF Recounted, Typed
        <5>3. conn \in [Threads -> Nat] /\ \A u \in Threads : conn[u] \in 0..Len(sessions[ProcOf[u]])
          BY DEF Typed, TypeOK
        <5>4. \A u \in Threads : conn[u] \in 0..Len(sessions'[ProcOf[u]])
          BY <5>2, <5>3, ThreadAssumption
        <5>5. current[ProcOf[t]] \in 0..Len(sessions'[ProcOf[t]]) /\ current[ProcOf[t]] \in Nat
          BY <4>3, ThreadAssumption DEF Typed
        <5> QED BY <5>1, <5>3, <5>4, <5>5
      <4> QED BY <2>1, <4>1, <4>3, <4>4 DEF Join, Typed, TypeOK, Places,
         Go, host, files, CallPicks
    <3> QED BY <2>1, <3>1, <3>2 DEF CallPicks
  <2>2. CASE CallAnswered(t)
    BY <2>2 DEF Typed, TypeOK, Places, Waiting, Go, host, files, proxy,
       locals, CallAnswered
  <2>3. CASE CallDrops(t)
    <3>1. Recounted(ProcOf[t], conn[t], sessions[ProcOf[t]][conn[t]].calls \ {t})
      BY <2>3, DropCounts
    <3>2. sessions' \in [Procs -> Seq(Session)] /\ \A q \in Procs : current[q] \in 0..Len(sessions'[q])
      BY <3>1 DEF Recounted, Typed, TypeOK
    <3>3. conn' \in [Threads -> Nat] /\ \A u \in Threads : conn'[u] \in 0..Len(sessions'[ProcOf[u]])
      <4>1. conn' = conn \/ conn' = [conn EXCEPT ![t] = 0]
        BY <2>3 DEF CallDrops
      <4>2. \A q \in Procs : Len(sessions'[q]) = Len(sessions[q]) /\ Len(sessions[q]) \in Nat
        BY <3>1 DEF Recounted, Typed
      <4>3. conn \in [Threads -> Nat] /\ \A u \in Threads : conn[u] \in 0..Len(sessions[ProcOf[u]])
        BY DEF Typed, TypeOK
      <4>4. \A u \in Threads : conn[u] \in 0..Len(sessions'[ProcOf[u]])
        BY <4>2, <4>3, ThreadAssumption
      <4>5. \A u \in Threads : 0 \in 0..Len(sessions'[ProcOf[u]])
        BY <4>2, ThreadAssumption
      <4> QED BY <4>1, <4>3, <4>4, <4>5
    <3>4. pc' \in [Threads -> Places] /\ cand' \in [Threads -> Bundles \cup {None}]
      <4>1. Go(t, "close") \/ Go(t, "done")
        BY <2>3 DEF CallDrops
      <4>2. cand' = cand \/ cand' = [cand EXCEPT ![t] = CurrentBundle(t)]
        BY <2>3 DEF CallDrops
      <4>3. pc' \in [Threads -> Places]
        BY <4>1 DEF Typed, TypeOK, Places, Go
      <4>4. cand' \in [Threads -> Bundles \cup {None}]
        BY <4>2, CurrentBundleTyped DEF Typed, TypeOK
      <4> QED BY <4>3, <4>4
    <3> QED BY <2>3, <3>2, <3>3, <3>4 DEF Typed, TypeOK, host, files, CallDrops
  <2>4. CASE SessionCloses(t)
    <3>1. Closed(ProcOf[t], conn[t])
      BY <2>4, CloseCounts
    <3> QED BY <2>4, <3>1, ThreadAssumption DEF Closed, Typed, TypeOK,
       Places, Waiting, Go, host, files, locals, SessionCloses
  <2>5. CASE CommandEnds(t)
    BY <2>5 DEF Typed, TypeOK, Places, Waiting, Go, host, files, proxy,
       locals, ReleaseLease, Forget, CommandEnds
  <2>6. CASE ProxyExits(t)
    BY <2>6, EndsTyped DEF Typed, TypeOK, ProxyExits
  <2>7. CASE LockTaken(t)
    BY <2>7 DEF Typed, TypeOK, Places, Waiting, Go, host, files, proxy,
       locals, LockTaken
  <2>8. CASE LockTimesOut(t)
    <3>1. mu' = mu \/ ReleaseMu(t)
      BY <2>8 DEF AfterPrune, LockTimesOut
    <3>2. PICK q \in {"idle", "pick", "exit", "done"} : Go(t, q)
      BY <2>8, NextPlaces DEF LockTimesOut
    <3>3. mu' \in [Procs -> Threads \cup {None}]
          /\ \A p \in Procs : mu'[p] \in {u \in Threads : ProcOf[u] = p} \cup {None}
      BY <3>1 DEF ReleaseMu, Typed, TypeOK
    <3>4. pc' \in [Threads -> Places]
      BY <3>2 DEF Go, Typed, TypeOK, Places, Waiting
    <3> QED BY <2>8, <3>3, <3>4 DEF Typed, TypeOK, host, files, proxy,
       Forget, LockTimesOut
  <2>9. CASE RecordedReused(t)
    BY <2>9, LeaveTyped DEF CanReuse, Whole, Typed, TypeOK, files, locals,
       host, proxy, RecordedReused
  <2>10. CASE SlotMovedAside(t)
    BY <2>10 DEF Typed, TypeOK, Places, Waiting, Go, host, files, proxy,
       locals, SlotMovedAside
  <2>11. CASE SourcesInstalled(t)
    <3>1. Sources(ProcOf[t]) \subseteq Bundles
      BY SourcesAreBundles DEF Typed
    <3>2. slot' \in [Bundles -> {"none", "partial", "wreck", "whole"}] /\ work' \in [Threads -> SUBSET Bundles]
      BY <2>11, <3>1 DEF Typed, TypeOK, SourcesInstalled
    <3> QED BY <2>11, <3>2 DEF Typed, TypeOK, Places, Go, host, proxy,
       SourcesInstalled
  <2>12. CASE CandidateChosen(t)
    <3>1. work' \in [Threads -> SUBSET Bundles] /\ UNCHANGED <<host, slot, alias, proxy, restored, conn, torn>>
      BY <2>12 DEF CandidateChosen, Typed, TypeOK
    <3>2. CASE Nothing(t)
      BY <2>12, <3>1, <3>2, NextPlaces DEF Nothing, ReleaseMu, Typed,
         TypeOK, Places, Go, host, proxy
    <3>3. CASE \E b \in Bundles : Selected(t, b)
      BY <3>1, <3>3, LeaveTyped DEF Selected, States
    <3> QED BY <2>12, <3>2, <3>3, ChosenIsWhole DEF CandidateChosen
  <2>13. CASE MuTaken(t)
    BY <2>13 DEF Typed, TypeOK, Places, Waiting, Go, host, files, proxy,
       locals, MuTaken
  <2>14. CASE AlreadyCurrent(t)
    BY <2>14 DEF Typed, TypeOK, Places, Waiting, Go, host, files, proxy,
       locals, ReleaseLease, ReleaseMu, AfterEnsure, Forget,
       AlreadyCurrent
  <2>15. CASE CandidateConnects(t)
    <3>1. cand[t] \in Bundles
      BY <2>15, LeasedCandidate DEF Leasing, CandidateConnects
    <3>2. SessionSwitched(t)
      BY <2>15 DEF CandidateConnects
    <3>3. /\ sessions' \in [Procs -> Seq(Session)]
          /\ current' = [current EXCEPT ![ProcOf[t]] = Len(sessions[ProcOf[t]]) + 1]
          /\ \A q \in Procs : Len(sessions'[q]) =
                IF q = ProcOf[t] THEN Len(sessions[q]) + 1 ELSE Len(sessions[q])
      BY <3>1, <3>2, SwitchSessions
    <3>4. \A u \in Threads : conn[u] \in 0..Len(sessions'[ProcOf[u]])
      BY <3>3, ThreadAssumption DEF Typed, TypeOK
    <3>5. current' \in [Procs -> Nat] /\ \A q \in Procs : current'[q] \in 0..Len(sessions'[q])
      BY <3>3 DEF Typed, TypeOK
    <3>6. pc' \in [Threads -> Places] /\ leases' \subseteq Threads
      BY <3>2 DEF SessionSwitched, Typed, TypeOK, Places, Waiting, Go,
         ReleaseLease
    <3> QED BY <2>15, <3>1, <3>3, <3>4, <3>5, <3>6 DEF Typed, TypeOK,
       HostRootPreserved, host, files, locals, CandidateConnects
  <2>16. CASE ContractDiffers(t)
    <3>1. mu' = mu \/ ReleaseMu(t)
      BY <2>16 DEF ContractDiffers
    <3>2. PICK q \in {"idle", "pick", "reject"} : Go(t, q)
      BY <2>16, NextPlaces DEF ContractDiffers
    <3>3. mu' \in [Procs -> Threads \cup {None}]
          /\ \A p \in Procs : mu'[p] \in {u \in Threads : ProcOf[u] = p} \cup {None}
      BY <3>1 DEF ReleaseMu, Typed, TypeOK
    <3>4. pc' \in [Threads -> Places]
      BY <3>2 DEF Go, Typed, TypeOK, Places, Waiting
    <3> QED BY <2>16, <3>3, <3>4 DEF Typed, TypeOK, host, files, proxy,
       HostRootPreserved, ReleaseLease, locals, ContractDiffers
  <2>17. CASE CandidateFails(t)
    BY <2>17 DEF Typed, TypeOK, Places, Waiting, Go, host, files, proxy,
       locals, ReleaseLease, CandidateFails
  <2>18. CASE Rejected(t)
    <3>1. PICK usable \in Validations(state.previous) :
             LET back == IF state.current # cand[t] THEN state.current
                         ELSE IF usable THEN state.previous ELSE None IN
             /\ state' = IF state.current # cand[t] \/ ~usable THEN state ELSE
                          [current |-> back, previous |-> None, rejected |-> cand[t]]
             /\ CASE back = None -> ReleaseMu(t) /\ Go(t, AfterError(t)) /\ UNCHANGED restored
                  [] back # None /\ back = CurrentBundle(t) ->
                        ReleaseMu(t) /\ Go(t, AfterEnsure(t)) /\ UNCHANGED restored
                  [] OTHER -> /\ Go(t, "again") /\ UNCHANGED mu
                              /\ restored' = [restored EXCEPT ![t] = back]
      BY <2>18 DEF Rejected
    <3> DEFINE back == IF state.current # cand[t] THEN state.current
                       ELSE IF usable THEN state.previous ELSE None
    <3>2. back \in Bundles \cup {None}
      BY DEF Typed, TypeOK
    <3>3. state' \in States
      BY <3>1, NoneAssumption DEF Typed, TypeOK, States
    <3> HIDE DEF back
    <3>4. restored' \in [Threads -> Bundles \cup {None}]
      BY <3>1, <3>2 DEF back, Typed, TypeOK
    <3>5. mu' = mu \/ ReleaseMu(t)
      BY <3>1
    <3>6. \E q \in {"idle", "pick", "done", "again"} : Go(t, q)
      BY <3>1, NextPlaces
    <3>7. mu' \in [Procs -> Threads \cup {None}]
          /\ \A q \in Procs : mu'[q] \in {u \in Threads : ProcOf[u] = q} \cup {None}
      BY <3>5 DEF Typed, TypeOK, ReleaseMu
    <3>8. pc' \in [Threads -> Places]
      BY <3>6 DEF Typed, TypeOK, Places, Waiting, Go
    <3> QED BY <2>18, <3>3, <3>4, <3>7, <3>8 DEF Typed, TypeOK, States,
       host, proxy, Rejected
  <2>19. CASE RestoredConnects(t)
    <3>1. cand[t] \in Bundles
      BY <2>19, LeasedCandidate DEF Leasing, RestoredConnects
    <3>2. SessionSwitched(t)
      BY <2>19 DEF RestoredConnects
    <3>3. /\ sessions' \in [Procs -> Seq(Session)]
          /\ current' = [current EXCEPT ![ProcOf[t]] = Len(sessions[ProcOf[t]]) + 1]
          /\ \A q \in Procs : Len(sessions'[q]) =
                IF q = ProcOf[t] THEN Len(sessions[q]) + 1 ELSE Len(sessions[q])
      BY <3>1, <3>2, SwitchSessions
    <3>4. \A u \in Threads : conn[u] \in 0..Len(sessions'[ProcOf[u]])
      BY <3>3, ThreadAssumption DEF Typed, TypeOK
    <3>5. current' \in [Procs -> Nat] /\ \A q \in Procs : current'[q] \in 0..Len(sessions'[q])
      BY <3>3 DEF Typed, TypeOK
    <3>6. pc' \in [Threads -> Places] /\ leases' \subseteq Threads
      BY <3>2 DEF SessionSwitched, Typed, TypeOK, Places, Waiting, Go,
         ReleaseLease
    <3> QED BY <2>19, <3>1, <3>3, <3>4, <3>5, <3>6 DEF Typed, TypeOK,
       HostRootPreserved, host, files, locals, RestoredConnects
  <2>20. CASE RestoredFails(t)
    BY <2>20 DEF Typed, TypeOK, Places, Waiting, Go, host, files, proxy,
       locals, ReleaseLease, ReleaseMu, AfterError, Forget, RestoredFails
  <2>21. CASE SlotKept(t)
    BY <2>21 DEF Typed, TypeOK, Places, Waiting, Go, host, files, proxy,
       locals, SlotKept
  <2>22. CASE SlotRemoved(t)
    BY <2>22 DEF Typed, TypeOK, Places, Waiting, Go, host, files, proxy,
       locals, SlotRemoved
  <2>23. CASE Collected(t)
    <3>1. mu' = mu \/ ReleaseMu(t)
      BY <2>23 DEF AfterPrune, Collected
    <3>2. PICK q \in {"idle", "pick", "exit", "done"} : Go(t, q)
      BY <2>23, NextPlaces DEF Collected
    <3>3. mu' \in [Procs -> Threads \cup {None}]
          /\ \A p \in Procs : mu'[p] \in {u \in Threads : ProcOf[u] = p} \cup {None}
      BY <3>1 DEF ReleaseMu, Typed, TypeOK
    <3>4. pc' \in [Threads -> Places]
      BY <3>2 DEF Go, Typed, TypeOK, Places, Waiting
    <3> QED BY <2>23, <3>3, <3>4 DEF Typed, TypeOK, host, files, proxy,
       Forget, Collected
  <2> QED BY <1>3, <2>1, <2>2, <2>3, <2>4, <2>5, <2>6, <2>7, <2>8, <2>9,
     <2>10, <2>11, <2>12, <2>13, <2>14, <2>15, <2>16, <2>17, <2>18, <2>19,
     <2>20, <2>21, <2>22, <2>23 DEF ThreadStep
<1>4. ASSUME NEW p \in Procs, ProcessStarts(p) PROVE Typed'
  BY <1>4, InstalledBundles DEF Typed, TypeOK, Places, Waiting, host, files,
     locals, ProcessStarts
<1>5. ASSUME NEW p \in Procs, Crash(p) PROVE Typed'
  <2>1. Ends(p) /\ crashes' \in 0..MaxCrashes
    BY <1>5, BoundAssumption DEF Typed, TypeOK, Crash
  <2> QED BY <2>1, EndsTyped DEF Crash
<1> QED BY <1>1, <1>2, <1>3, <1>4, <1>5 DEF Next

(* What a step leaves alone: no leased slot is touched, and what is newly   *)
(* leased or opened is complete.                                            *)
Spared == \A b \in Bundles : slot[b] = "whole" /\ Leased(b) => slot'[b] = "whole"

CandsKept ==
    \A u \in leases' :
        \/ u \in leases /\ cand'[u] = cand[u]
        \/ cand'[u] # None /\ slot'[cand'[u]] = "whole"

OpenKept ==
    \A q \in Procs : \A j \in 1..Len(sessions'[q]) :
        sessions'[q][j].open =>
           \/ /\ j \in 1..Len(sessions[q]) /\ sessions[q][j].open
              /\ sessions'[q][j].bundle = sessions[q][j].bundle
           \/ slot'[sessions'[q][j].bundle] = "whole"

LEMMA LeasesFrame ==
    ASSUME Typed, Typed', Leases, LeasedSlotsExist, Spared, CandsKept, OpenKept
    PROVE  Leases' /\ LeasedSlotsExist'
<1>1. \A u \in leases : cand[u] \in Bundles /\ slot[cand[u]] = "whole" /\ Leased(cand[u])
  BY DEF Typed, TypeOK, Leases, LeasedSlotsExist, Leased
<1>2. \A u \in leases' : cand'[u] # None /\ slot'[cand'[u]] = "whole"
  BY <1>1, NoneAssumption DEF Spared, CandsKept
<1>3. ASSUME NEW q \in Procs, NEW j \in DOMAIN sessions'[q], sessions'[q][j].open
      PROVE  slot'[sessions'[q][j].bundle] = "whole"
  <2>1. j \in 1..Len(sessions'[q])
    BY DEF Typed
  <2>2. CASE j \in 1..Len(sessions[q]) /\ sessions[q][j].open
             /\ sessions'[q][j].bundle = sessions[q][j].bundle
    <3>1. sessions[q][j] \in Session /\ j \in DOMAIN sessions[q]
      BY <2>2 DEF Typed
    <3>2. sessions[q][j].bundle \in Bundles
      BY <3>1 DEF Session
    <3>3. Leased(sessions[q][j].bundle)
      BY <2>2, <3>1 DEF Leased
    <3>4. slot[sessions[q][j].bundle] = "whole"
      BY <2>2, <3>1 DEF LeasedSlotsExist
    <3> QED BY <2>2, <3>2, <3>3, <3>4 DEF Spared
  <2> QED BY <1>3, <2>1, <2>2 DEF OpenKept
<1> QED BY <1>2, <1>3 DEF Leases, LeasedSlotsExist

LEMMA SlotsSpared == ASSUME UNCHANGED slot PROVE Spared
BY DEF Spared

LEMMA OpenUnchanged == ASSUME UNCHANGED sessions PROVE OpenKept
BY DEF OpenKept

LEMMA OpenRecounted ==
    ASSUME NEW p, NEW i, NEW X, Recounted(p, i, X) PROVE OpenKept
BY DEF OpenKept, Recounted

LEMMA OpenClosed ==
    ASSUME NEW p, NEW i, Closed(p, i) PROVE OpenKept
<1>1. ASSUME NEW q \in Procs, NEW j \in 1..Len(sessions'[q]), sessions'[q][j].open
      PROVE  /\ j \in 1..Len(sessions[q]) /\ sessions[q][j].open
             /\ sessions'[q][j].bundle = sessions[q][j].bundle
  <2>1. j \in 1..Len(sessions[q])
    BY DEF Closed
  <2>2. q # p \/ j # i
    BY <1>1, <2>1 DEF Closed
  <2>3. sessions'[q][j] = sessions[q][j]
    BY <2>1, <2>2 DEF Closed
  <2> QED BY <1>1, <2>1, <2>3
<1> QED BY <1>1 DEF OpenKept

(* A switch opens a session on a complete slot.                             *)
LEMMA OpenSwitched ==
    ASSUME Typed, RetiredSessionsDrain, NEW t \in Threads, cand[t] \in Bundles,
           slot'[cand[t]] = "whole", SessionSwitched(t)
    PROVE  OpenKept
<1>1. \A q \in Procs : Len(sessions'[q]) =
            IF q = ProcOf[t] THEN Len(sessions[q]) + 1 ELSE Len(sessions[q])
  BY SwitchSessions
<1>2. \A q \in Procs : \A j \in 1..Len(sessions'[q]) :
            sessions'[q][j] = Switched(t, q, j)
  BY SwitchSessions
<1>3. ASSUME NEW q \in Procs, NEW j \in 1..Len(sessions'[q]), sessions'[q][j].open
      PROVE  \/ /\ j \in 1..Len(sessions[q]) /\ sessions[q][j].open
                /\ sessions'[q][j].bundle = sessions[q][j].bundle
             \/ slot'[sessions'[q][j].bundle] = "whole"
  <2>1. Len(sessions[q]) \in Nat /\ sessions'[q][j] = Switched(t, q, j)
    <3>1. Len(sessions[q]) \in Nat
      BY DEF Typed
    <3> QED BY <1>2, <3>1
  <2>2. CASE q = ProcOf[t] /\ j = Len(sessions[q]) + 1
    BY <2>1, <2>2 DEF Switched
  <2>3. CASE ~(q = ProcOf[t] /\ j = Len(sessions[q]) + 1)
    <3>1. j \in 1..Len(sessions[q])
      BY <1>1, <2>1, <2>3
    <3>2. CASE q = ProcOf[t] /\ j = current[q]
      <4>1. sessions[q][j].open
        BY <3>1, <3>2 DEF RetiredSessionsDrain
      <4>2. sessions'[q][j].bundle = sessions[q][j].bundle
        BY <2>1, <2>3, <3>2 DEF Switched
      <4> QED BY <3>1, <4>1, <4>2
    <3>3. CASE ~(q = ProcOf[t] /\ j = current[q])
      <4>1. sessions'[q][j] = sessions[q][j]
        BY <2>1, <2>3, <3>3 DEF Switched
      <4> QED BY <1>3, <3>1, <4>1
    <3> QED BY <3>2, <3>3
  <2> QED BY <2>2, <2>3
<1> QED BY <1>3 DEF OpenKept

(* The usual step touches no slot and no session.                           *)
LEMMA LeasesSame ==
    ASSUME Typed, Typed', Leases, LeasedSlotsExist, UNCHANGED <<slot, sessions>>, CandsKept
    PROVE  Leases' /\ LeasedSlotsExist'
BY LeasesFrame, SlotsSpared, OpenUnchanged

(* Leases and sessions keep complete slots.                                 *)
LEMMA LeasesStep ==
    ASSUME Typed, Typed', Held, Found, Leases, Joined, LeasedSlotsExist, RetiredSessionsDrain, Next
    PROVE  Leases' /\ LeasedSlotsExist'
<1>1. CASE HostInstalls
  BY <1>1, LeasesSame DEF CandsKept, host, files, proxy, locals, HostInstalls
<1>2. ASSUME NEW t \in Threads, Starts(t) PROVE (Leases' /\ LeasedSlotsExist')
  <2> ProcOf[t] \in Procs
    BY ThreadAssumption
  <2>1. CASE CallStarts(t)
    <3>1. slot' = slot /\ CandsKept
      BY <2>1 DEF CandsKept, files, CallStarts
    <3>2. OpenKept
      <4>1. CASE Current(t) = 0
        BY <2>1, <4>1, OpenUnchanged DEF CallStarts
      <4>2. CASE Current(t) # 0
        <5>1. Join(t)
          BY <2>1, <4>2 DEF CallStarts
        <5> QED BY <4>2, <5>1, JoinCounts, OpenRecounted
      <4> QED BY <4>1, <4>2
    <3> QED BY <3>1, <3>2, LeasesFrame, SlotsSpared
  <2>2. CASE MonitorWakes(t)
    BY <2>2, LeasesSame DEF CandsKept, host, files, proxy, locals, MonitorWakes
  <2>3. CASE ProxyCloses(t)
    BY <2>3, LeasesSame DEF CandsKept, Held, Leasing, Waiting, host,
       files, proxy, locals, Forget, ReleaseLease, Typed, TypeOK,
       ProxyCloses
  <2> QED BY <1>2, <2>1, <2>2, <2>3 DEF Starts
<1>3. ASSUME NEW t \in Threads, ThreadStep(t) PROVE (Leases' /\ LeasedSlotsExist')
  <2> ProcOf[t] \in Procs
    BY ThreadAssumption
  <2>1. CASE CallPicks(t)
    <3>1. slot' = slot /\ CandsKept
      BY <2>1 DEF CandsKept, files, CallPicks
    <3>2. OpenKept
      <4>1. CASE Current(t) = 0
        BY <2>1, <4>1, OpenUnchanged DEF CallPicks
      <4>2. CASE Current(t) # 0
        <5>1. Join(t)
          BY <2>1, <4>2 DEF CallPicks
        <5> QED BY <4>2, <5>1, JoinCounts, OpenRecounted
      <4> QED BY <4>1, <4>2
    <3> QED BY <3>1, <3>2, LeasesFrame, SlotsSpared
  <2>2. CASE CallAnswered(t)
    BY <2>2, LeasesSame DEF CandsKept, host, files, proxy, locals, CallAnswered
  <2>3. CASE CallDrops(t)
    <3>1. OpenKept
      BY <2>3, DropCounts, OpenRecounted
    <3>2. t \notin leases /\ (cand' = cand \/ cand' = [cand EXCEPT ![t] = CurrentBundle(t)])
      BY <2>3 DEF Held, Leasing, CallDrops
    <3>3. CandsKept
      BY <2>3, <3>2 DEF CandsKept, Typed, TypeOK, CallDrops
    <3> QED BY <2>3, <3>1, <3>3, LeasesFrame, SlotsSpared DEF files, CallDrops
  <2>4. CASE SessionCloses(t)
    <3>1. OpenKept
      BY <2>4, CloseCounts, OpenClosed
    <3> QED BY <2>4, <3>1, LeasesFrame, SlotsSpared DEF CandsKept, files,
       locals, SessionCloses
  <2>5. CASE CommandEnds(t)
    BY <2>5, LeasesSame DEF CandsKept, Held, Leasing, Waiting, host,
       files, proxy, locals, Forget, ReleaseLease, Typed, TypeOK,
       CommandEnds
  <2>6. CASE ProxyExits(t)
    <3>1. Ends(ProcOf[t])
      BY <2>6 DEF ProxyExits
    <3>2. sessions'[ProcOf[t]] = <<>> /\ \A q \in Procs \ {ProcOf[t]} : sessions'[q] = sessions[q]
      BY <3>1 DEF Ends, Typed
    <3>3. OpenKept
      BY <3>2 DEF OpenKept
    <3>4. slot' = slot /\ CandsKept
      BY <3>1 DEF CandsKept, Ends, files, Typed, TypeOK
    <3> QED BY <3>3, <3>4, LeasesFrame, SlotsSpared
  <2>7. CASE LockTaken(t)
    BY <2>7, LeasesSame DEF CandsKept, host, files, proxy, locals, LockTaken
  <2>8. CASE LockTimesOut(t)
    BY <2>8, LeasesSame DEF CandsKept, Held, Leasing, Waiting, host,
       files, proxy, locals, Forget, ReleaseLease, Typed, TypeOK,
       LockTimesOut
  <2>9. CASE RecordedReused(t)
    <3>1. PICK b \in Bundles : slot[b] = "whole" /\ Leave(t, b)
      BY <2>9 DEF CanReuse, Whole, Typed, TypeOK, RecordedReused
    <3>2. CandsKept
      BY <2>9, <3>1, NoneAssumption DEF CandsKept, Leave, Typed, TypeOK,
         files, RecordedReused
    <3> QED BY <2>9, <3>2, LeasesSame DEF files, proxy, RecordedReused
  <2>10. CASE SlotMovedAside(t)
    <3>1. Spared
      BY <2>10 DEF Spared, Typed, TypeOK, SlotMovedAside
    <3>2. CandsKept /\ OpenKept
      BY <2>10, OpenUnchanged DEF CandsKept, proxy, locals, SlotMovedAside
    <3> QED BY <3>1, <3>2, LeasesFrame
  <2>11. CASE SourcesInstalled(t)
    <3>1. Spared
      BY <2>11 DEF Spared, Typed, TypeOK, SourcesInstalled
    <3>2. CandsKept /\ OpenKept
      BY <2>11, OpenUnchanged DEF CandsKept, proxy, locals, SourcesInstalled
    <3> QED BY <3>1, <3>2, LeasesFrame
  <2>12. CASE CandidateChosen(t)
    <3>1. CASE Nothing(t)
      BY <2>12, <3>1, LeasesSame DEF CandsKept, Nothing, proxy, CandidateChosen
    <3>2. CASE \E b \in Bundles : Selected(t, b)
      <4>1. PICK b \in Bundles : slot[b] = "whole" /\ Leave(t, b)
        BY <3>2 DEF Selected
      <4>2. CandsKept
        BY <2>12, <4>1, NoneAssumption DEF CandsKept, Leave, Typed,
           TypeOK, CandidateChosen
      <4> QED BY <2>12, <4>2, LeasesSame DEF proxy, CandidateChosen
    <3> QED BY <2>12, <3>1, <3>2, ChosenIsWhole
  <2>13. CASE MuTaken(t)
    BY <2>13, LeasesSame DEF CandsKept, host, files, proxy, locals, MuTaken
  <2>14. CASE AlreadyCurrent(t)
    BY <2>14, LeasesSame DEF CandsKept, Held, Leasing, Waiting, host,
       files, proxy, locals, Forget, ReleaseLease, Typed, TypeOK,
       AlreadyCurrent
  <2>15. CASE CandidateConnects(t)
    <3>1. cand[t] \in Bundles /\ slot[cand[t]] = "whole"
      BY <2>15, LeasedCandidate DEF Leasing, CandidateConnects
    <3>2. SessionSwitched(t) /\ slot' = slot
      BY <2>15 DEF files, CandidateConnects
    <3>3. CandsKept
      BY <2>15, <3>2 DEF CandsKept, SessionSwitched, ReleaseLease,
         locals, CandidateConnects
    <3>4. OpenKept
      BY <3>1, <3>2, OpenSwitched
    <3> QED BY <3>2, <3>3, <3>4, LeasesFrame, SlotsSpared
  <2>16. CASE ContractDiffers(t)
    BY <2>16, LeasesSame DEF CandsKept, Held, Leasing, Waiting, host,
       files, proxy, locals, Forget, ReleaseLease, Typed, TypeOK,
       ContractDiffers
  <2>17. CASE CandidateFails(t)
    BY <2>17, LeasesSame DEF CandsKept, Held, Leasing, Waiting, host,
       files, proxy, locals, Forget, ReleaseLease, Typed, TypeOK,
       CandidateFails
  <2>18. CASE Rejected(t)
    BY <2>18, LeasesSame DEF CandsKept, host, files, proxy, locals, Rejected
  <2>19. CASE RestoredConnects(t)
    <3>1. cand[t] \in Bundles /\ slot[cand[t]] = "whole"
      BY <2>19, LeasedCandidate DEF Leasing, RestoredConnects
    <3>2. SessionSwitched(t) /\ slot' = slot
      BY <2>19 DEF files, RestoredConnects
    <3>3. CandsKept
      BY <2>19, <3>2 DEF CandsKept, SessionSwitched, ReleaseLease,
         locals, RestoredConnects
    <3>4. OpenKept
      BY <3>1, <3>2, OpenSwitched
    <3> QED BY <3>2, <3>3, <3>4, LeasesFrame, SlotsSpared
  <2>20. CASE RestoredFails(t)
    BY <2>20, LeasesSame DEF CandsKept, Held, Leasing, Waiting, host,
       files, proxy, locals, Forget, ReleaseLease, Typed, TypeOK,
       RestoredFails
  <2>21. CASE SlotKept(t)
    BY <2>21, LeasesSame DEF CandsKept, host, files, proxy, locals, SlotKept
  <2>22. CASE SlotRemoved(t)
    <3>1. Spared
      BY <2>22 DEF Spared, Typed, TypeOK, SlotRemoved
    <3>2. CandsKept /\ OpenKept
      BY <2>22, OpenUnchanged DEF CandsKept, proxy, locals, SlotRemoved
    <3> QED BY <3>1, <3>2, LeasesFrame
  <2>23. CASE Collected(t)
    BY <2>23, LeasesSame DEF CandsKept, Held, Leasing, Waiting, host,
       files, proxy, locals, Forget, ReleaseLease, Typed, TypeOK,
       Collected
  <2> QED BY <1>3, <2>1, <2>2, <2>3, <2>4, <2>5, <2>6, <2>7, <2>8, <2>9,
     <2>10, <2>11, <2>12, <2>13, <2>14, <2>15, <2>16, <2>17, <2>18, <2>19,
     <2>20, <2>21, <2>22, <2>23 DEF ThreadStep
<1>4. ASSUME NEW p \in Procs, ProcessStarts(p) PROVE (Leases' /\ LeasedSlotsExist')
  BY <1>4, LeasesSame DEF CandsKept, host, files, proxy, locals, ProcessStarts
<1>5. ASSUME NEW p \in Procs, Crash(p) PROVE (Leases' /\ LeasedSlotsExist')
  <2>1. Ends(p)
    BY <1>5 DEF Crash
  <2>2. sessions'[p] = <<>> /\ \A q \in Procs \ {p} : sessions'[q] = sessions[q]
    BY <2>1 DEF Ends, Typed
  <2>3. OpenKept
    BY <2>2 DEF OpenKept
  <2>4. slot' = slot /\ CandsKept
    BY <2>1 DEF CandsKept, Ends, files, Typed, TypeOK
  <2> QED BY <2>3, <2>4, LeasesFrame, SlotsSpared
<1> QED BY <1>1, <1>2, <1>3, <1>4, <1>5 DEF Next

(* What is recorded and found stays so when complete slots stay complete,   *)
(* nobody begins to select or collect, and nobody stops collecting.         *)
LEMMA RecordFrame ==
    ASSUME Typed, Found, RecordedIsUsable, UNCHANGED <<state, torn>>,
           \A b \in Bundles : slot[b] = "whole" => slot'[b] = "whole",
           \A u \in Threads : pc'[u] \in {"choose", "collect"} =>
                                 pc[u] = pc'[u] /\ work'[u] \subseteq work[u],
           \A u \in Threads : pc[u] = "collect" => pc'[u] = "collect"
    PROVE  Found' /\ RecordedIsUsable'
<1>1. Found'
  BY DEF Found, Typed, TypeOK
<1>2. \A b \in Bundles \cup {None} : b # None /\ slot[b] = "whole" => slot'[b] = "whole"
  OBVIOUS
<1>3. RecordedIsUsable'
  <2>1. state.current \in Bundles \cup {None} /\ state.previous \in Bundles \cup {None}
    BY DEF Typed, TypeOK
  <2> QED BY <1>2, <2>1 DEF RecordedIsUsable
<1> QED BY <1>1, <1>3

(* A thread that neither selects nor collects moves on.                     *)
LEMMA RecordMove ==
    ASSUME Typed, Found, RecordedIsUsable, UNCHANGED <<slot, state, torn, work>>,
           NEW t \in Threads, pc[t] # "collect",
           NEW q \in Places \ {"choose", "collect"}, Go(t, q)
    PROVE  Found' /\ RecordedIsUsable'
<1>1. \A u \in Threads : u # t => pc'[u] = pc[u]
  BY DEF Go, Typed, TypeOK
<1>2. pc'[t] = q
  BY DEF Go, Typed, TypeOK
<1>3. \A u \in Threads : pc'[u] \in {"choose", "collect"} =>
                            pc[u] = pc'[u] /\ work'[u] \subseteq work[u]
  BY <1>1, <1>2
<1>4. \A u \in Threads : pc[u] = "collect" => pc'[u] = "collect"
  BY <1>1
<1> QED BY <1>3, <1>4, RecordFrame

(* Nobody selects or collects while another thread holds resolve.lock.      *)
LEMMA Alone ==
    ASSUME Held, NEW t \in Threads, pc[t] \in Locking
    PROVE  \A u \in Threads : u # t => pc[u] \notin {"choose", "collect"}
BY DEF Held, Locking

(* The process that died with resolve.lock is remembered.                   *)
LEMMA EndsRecord ==
    ASSUME Typed, Held, Found, RecordedIsUsable, NEW p \in Procs, Ends(p)
    PROVE  Found' /\ RecordedIsUsable'
<1>1. \A u \in Threads : pc'[u] = IF ProcOf[u] = p THEN "dead" ELSE pc[u]
  BY DEF Ends
<1>2. \A u \in Threads : ProcOf[u] # p => work'[u] = work[u]
  BY DEF Ends
<1>3. slot' = slot /\ state' = state
  BY DEF Ends, files
<1>4. Found'
  BY <1>1, <1>2, <1>3 DEF Found
<1>5. CASE \E u \in Threads : ProcOf[u] = p /\ pc[u] = "collect"
  <2>1. PICK u \in Threads : ProcOf[u] = p /\ pc[u] = "collect"
    BY <1>5
  <2>2. lock = u
    BY <2>1 DEF Held, Locking
  <2>3. torn' # {}
    BY <2>1, <2>2 DEF Ends
  <2> QED BY <1>3, <1>4, <2>3 DEF RecordedIsUsable
<1>6. CASE ~\E u \in Threads : ProcOf[u] = p /\ pc[u] = "collect"
  <2>1. torn' = {} => torn = {}
    BY DEF Ends
  <2>2. \A u \in Threads : pc[u] = "collect" => pc'[u] = "collect"
    BY <1>1, <1>6
  <2> QED BY <1>3, <1>4, <2>1, <2>2 DEF RecordedIsUsable
<1> QED BY <1>5, <1>6

(* What state.json names stays usable.                                      *)
LEMMA RecordStep ==
    ASSUME Typed, Held, Found, Leases, Joined, LeasedSlotsExist, RecordedIsUsable, Next
    PROVE  Found' /\ RecordedIsUsable'
<1>1. CASE HostInstalls
  BY <1>1, RecordFrame DEF locals, HostInstalls
<1>2. ASSUME NEW t \in Threads, Starts(t) PROVE (Found' /\ RecordedIsUsable')
  <2> ProcOf[t] \in Procs
    BY ThreadAssumption
  <2>1. CASE CallStarts(t)
    <3>1. PICK q \in {"resolve", "call"} : Go(t, q)
      BY <2>1, NextPlaces DEF CallStarts, Join
    <3> QED BY <2>1, <3>1, RecordMove DEF Places, Waiting, host, files,
       proxy, locals, CallStarts
  <2>2. CASE MonitorWakes(t)
    BY <2>2, RecordMove DEF Places, Waiting, host, files, proxy, locals,
       MonitorWakes
  <2>3. CASE ProxyCloses(t)
    <3>1. PICK q \in {"exit", "close"} : Go(t, q)
      BY <2>3, NextPlaces DEF ProxyCloses
    <3> QED BY <2>3, <3>1, RecordMove DEF Places, Waiting, host, files,
       proxy, locals, ProxyCloses
  <2> QED BY <1>2, <2>1, <2>2, <2>3 DEF Starts
<1>3. ASSUME NEW t \in Threads, ThreadStep(t) PROVE (Found' /\ RecordedIsUsable')
  <2> ProcOf[t] \in Procs
    BY ThreadAssumption
  <2>1. CASE CallPicks(t)
    <3>1. PICK q \in {"done", "call"} : Go(t, q)
      BY <2>1, NextPlaces DEF CallPicks, Join
    <3> QED BY <2>1, <3>1, RecordMove DEF Places, Waiting, host, files,
       proxy, locals, CallPicks
  <2>2. CASE CallAnswered(t)
    BY <2>2, RecordMove DEF Places, Waiting, host, files, proxy, locals,
       CallAnswered
  <2>3. CASE CallDrops(t)
    <3>1. PICK q \in {"done", "close"} : Go(t, q)
      BY <2>3, NextPlaces DEF CallDrops
    <3> QED BY <2>3, <3>1, RecordMove DEF Places, Waiting, host, files,
       proxy, locals, CallDrops
  <2>4. CASE SessionCloses(t)
    <3>1. PICK q \in {"done", "prune"} : Go(t, q)
      BY <2>4, NextPlaces DEF SessionCloses
    <3> QED BY <2>4, <3>1, RecordMove DEF Places, Waiting, host, files,
       proxy, locals, SessionCloses
  <2>5. CASE CommandEnds(t)
    BY <2>5, RecordMove DEF Places, Waiting, host, files, proxy, locals,
       CommandEnds
  <2>6. CASE ProxyExits(t)
    BY <2>6, EndsRecord DEF Typed, ProxyExits
  <2>7. CASE LockTaken(t)
    <3>1. CASE pc[t] # "prune"
      <4>1. PICK q \in {"install", "rejecting"} : Go(t, q)
        BY <2>7, <3>1 DEF Waiting, LockTaken
      <4>2. \A u \in Threads : pc'[u] \in {"choose", "collect"} =>
                                  pc[u] = pc'[u] /\ work'[u] \subseteq work[u]
        BY <2>7, <4>1 DEF Go, Typed, TypeOK, LockTaken
      <4>3. \A u \in Threads : pc[u] = "collect" => pc'[u] = "collect"
        BY <2>7, <4>1 DEF Waiting, Go, Typed, TypeOK, LockTaken
      <4> QED BY <2>7, <4>2, <4>3, RecordFrame DEF files, LockTaken
    <3>2. CASE pc[t] = "prune"
      <4>1. Go(t, "collect") /\ work' = [work EXCEPT ![t] = {b \in Bundles : slot[b] # "none"} \ {state.current}]
        BY <2>7, <3>2 DEF LockTaken
      <4>2. slot' = slot /\ state' = state
        BY <2>7 DEF files, LockTaken
      <4>3. pc'[t] = "collect" /\ state.current \notin work'[t]
        BY <4>1 DEF Go, Typed, TypeOK
      <4>4. \A u \in Threads : u # t => pc'[u] = pc[u] /\ work'[u] = work[u]
        BY <4>1 DEF Go, Typed, TypeOK
      <4>5. Found'
        BY <4>2, <4>3, <4>4 DEF Found
      <4> QED BY <4>2, <4>3, <4>5 DEF RecordedIsUsable
    <3> QED BY <3>1, <3>2
  <2>8. CASE LockTimesOut(t)
    <3>1. PICK q \in {"idle", "pick", "exit", "done"} : Go(t, q)
      BY <2>8, NextPlaces DEF LockTimesOut
    <3> QED BY <2>8, <3>1, RecordMove DEF Places, Waiting, host, files,
       proxy, locals, LockTimesOut
  <2>9. CASE RecordedReused(t)
    <3>1. PICK q \in {"restore", "exec", "enter"} : Go(t, q)
      BY <2>9, NextPlaces DEF RecordedReused, Leave
    <3> QED BY <2>9, <3>1, RecordMove DEF Places, Waiting, host, files,
       proxy, locals, RecordedReused
  <2>10. CASE SlotMovedAside(t)
    BY <2>10, RecordFrame DEF Typed, TypeOK, locals, SlotMovedAside
  <2>11. CASE SourcesInstalled(t)
    <3>1. slot' \in [Bundles -> {"none", "partial", "wreck", "whole"}]
          /\ \A b \in Bundles : slot[b] = "whole" => slot'[b] = "whole"
      BY <2>11 DEF Typed, TypeOK, SourcesInstalled
    <3>2. \A b \in work'[t] : slot'[b] = "whole"
      BY <2>11 DEF Typed, TypeOK, SourcesInstalled
    <3>3. pc' = [pc EXCEPT ![t] = "choose"] /\ \A u \in Threads : u # t => work'[u] = work[u]
      BY <2>11 DEF Go, Typed, TypeOK, SourcesInstalled
    <3>4. \A u \in Threads : pc[u] = "collect" => pc'[u] = "collect"
      BY <2>11, <3>3 DEF Typed, TypeOK, SourcesInstalled
    <3>5. state' = state /\ torn' = torn
      BY <2>11 DEF SourcesInstalled
    <3>6. \A u \in Threads : u # t => pc[u] \notin {"choose", "collect"}
      BY <2>11, Alone DEF Locking, SourcesInstalled
    <3>7. Found'
      BY <3>2, <3>3, <3>6 DEF Found, Typed, TypeOK
    <3>8. state.current \in Bundles \cup {None} /\ state.previous \in Bundles \cup {None}
      BY DEF Typed, TypeOK
    <3> QED BY <3>1, <3>4, <3>5, <3>7, <3>8 DEF RecordedIsUsable
  <2>12. CASE CandidateChosen(t)
    <3>1. \A u \in Threads : u # t => pc[u] \notin {"choose", "collect"}
      BY <2>12, Alone DEF Locking, CandidateChosen
    <3>2. slot' = slot /\ torn' = torn /\ pc[t] = "choose"
      BY <2>12 DEF CandidateChosen
    <3>3. \E q \in {"idle", "done", "restore", "exec", "enter"} : Go(t, q)
      BY <2>12, ChosenIsWhole, NextPlaces DEF Nothing, Selected, Leave
    <3>4. \A u \in Threads : pc'[u] \notin {"choose", "collect"}
      BY <3>1, <3>3 DEF Go, Typed, TypeOK
    <3>5. \A u \in Threads : pc[u] # "collect"
      BY <3>1, <3>2
    <3>6. state' = state \/ \E b \in Bundles : /\ slot[b] = "whole" /\ state'.current = b
                                               /\ state'.previous # None => slot[state'.previous] = "whole"
      BY <2>12, ChosenIsWhole DEF Nothing, Selected
    <3> QED BY <3>2, <3>4, <3>5, <3>6 DEF Found, RecordedIsUsable
  <2>13. CASE MuTaken(t)
    BY <2>13, RecordMove DEF Places, Waiting, host, files, proxy, locals,
       MuTaken
  <2>14. CASE AlreadyCurrent(t)
    <3>1. PICK q \in {"idle", "pick"} : Go(t, q)
      BY <2>14, NextPlaces DEF AlreadyCurrent
    <3> QED BY <2>14, <3>1, RecordMove DEF Places, Waiting, host, files,
       proxy, locals, AlreadyCurrent
  <2>15. CASE CandidateConnects(t)
    BY <2>15, RecordMove DEF Places, Waiting, host, files, proxy, locals,
       SessionSwitched, CandidateConnects
  <2>16. CASE ContractDiffers(t)
    <3>1. PICK q \in {"idle", "pick", "reject"} : Go(t, q)
      BY <2>16, NextPlaces DEF ContractDiffers
    <3> QED BY <2>16, <3>1, RecordMove DEF Places, Waiting, host, files,
       proxy, locals, ContractDiffers
  <2>17. CASE CandidateFails(t)
    BY <2>17, RecordMove DEF Places, Waiting, host, files, proxy, locals,
       CandidateFails
  <2>18. CASE Rejected(t)
    <3>1. \A u \in Threads : u # t => pc[u] \notin {"choose", "collect"}
      BY <2>18, Alone DEF Locking, Rejected
    <3>2. slot' = slot /\ torn' = torn /\ pc[t] = "rejecting"
      BY <2>18 DEF Rejected
    <3>3. \E q \in {"idle", "pick", "done", "again"} : Go(t, q)
      BY <2>18, NextPlaces DEF Rejected
    <3>4. \A u \in Threads : pc'[u] \notin {"choose", "collect"}
      BY <3>1, <3>3 DEF Go, Typed, TypeOK
    <3>5. \A u \in Threads : pc[u] # "collect"
      BY <3>1, <3>2
    <3>6. state' = state \/ (state'.current = state.previous /\ state'.previous = None
                             /\ slot[state.previous] = "whole")
      <4>1. PICK usable \in Validations(state.previous) :
               state' = IF state.current # cand[t] \/ ~usable THEN state ELSE
                        [current |-> IF state.current # cand[t] THEN state.current
                                     ELSE IF usable THEN state.previous ELSE None,
                         previous |-> None, rejected |-> cand[t]]
        BY <2>18 DEF Rejected
      <4>2. CASE state.current # cand[t] \/ ~usable
        BY <4>1, <4>2
      <4>3. CASE state.current = cand[t] /\ usable
        <5>1. slot[state.previous] = "whole"
          BY <4>1, <4>3 DEF Validations, Whole
        <5>2. state' = [current |-> state.previous, previous |-> None, rejected |-> cand[t]]
          BY <4>1, <4>3
        <5> QED BY <5>1, <5>2
      <4> QED BY <4>2, <4>3
    <3> QED BY <3>2, <3>4, <3>5, <3>6 DEF Found, RecordedIsUsable
  <2>19. CASE RestoredConnects(t)
    BY <2>19, RecordMove DEF Places, Waiting, host, files, proxy, locals,
       SessionSwitched, RestoredConnects
  <2>20. CASE RestoredFails(t)
    <3>1. PICK q \in {"idle", "done"} : Go(t, q)
      BY <2>20, NextPlaces DEF RestoredFails
    <3> QED BY <2>20, <3>1, RecordMove DEF Places, Waiting, host, files,
       proxy, locals, RestoredFails
  <2>21. CASE SlotKept(t)
    BY <2>21, RecordFrame DEF files, Typed, TypeOK, SlotKept
  <2>22. CASE SlotRemoved(t)
    <3>1. PICK b \in work[t], left \in {"partial", "wreck", "none"} :
             /\ slot' = [slot EXCEPT ![b] = left]
             /\ work' = [work EXCEPT ![t] = IF left = "none" THEN work[t] \ {b} ELSE work[t]]
      BY <2>22 DEF SlotRemoved
    <3>7. work'[t] \subseteq work[t]
      BY <3>1 DEF Typed, TypeOK
    <3>2. \A u \in Threads : u # t => pc[u] \notin {"choose", "collect"}
      BY <2>22, Alone DEF Locking, SlotRemoved
    <3>3. pc' = pc /\ state' = state /\ pc[t] = "collect"
      BY <2>22 DEF SlotRemoved
    <3>4. b # state.current /\ state.current \notin work'[t]
      BY <3>3, <3>7 DEF Found
    <3>5. Found'
      BY <3>2, <3>3, <3>4 DEF Found
    <3>6. state.current # None => slot'[state.current] = slot[state.current]
      BY <3>1, <3>4 DEF Typed, TypeOK
    <3> QED BY <3>3, <3>5, <3>6 DEF RecordedIsUsable
  <2>23. CASE Collected(t)
    <3>1. \A u \in Threads : u # t => pc[u] \notin {"choose", "collect"}
      BY <2>23, Alone DEF Locking, Collected
    <3>2. \E q \in {"idle", "pick", "exit", "done"} : Go(t, q)
      BY <2>23, NextPlaces DEF Collected
    <3>3. \A u \in Threads : pc'[u] \notin {"choose", "collect"}
      BY <3>1, <3>2 DEF Go, Typed, TypeOK
    <3>4. slot' = slot /\ state'.current = state.current /\ state'.previous = None
      BY <2>23 DEF Collected, Typed, TypeOK
    <3> QED BY <3>3, <3>4 DEF Found, RecordedIsUsable
  <2> QED BY <1>3, <2>1, <2>2, <2>3, <2>4, <2>5, <2>6, <2>7, <2>8, <2>9,
     <2>10, <2>11, <2>12, <2>13, <2>14, <2>15, <2>16, <2>17, <2>18, <2>19,
     <2>20, <2>21, <2>22, <2>23 DEF ThreadStep
<1>4. ASSUME NEW p \in Procs, ProcessStarts(p) PROVE (Found' /\ RecordedIsUsable')
  <2>1. \A u \in Threads : pc'[u] \in {"choose", "collect"} => pc'[u] = pc[u]
    BY <1>4 DEF ProcessStarts
  <2>2. \A u \in Threads : pc[u] = "collect" => pc'[u] = "collect"
    BY <1>4 DEF ProcessStarts
  <2> QED BY <1>4, <2>1, <2>2, RecordFrame DEF files, locals, ProcessStarts
<1>5. ASSUME NEW p \in Procs, Crash(p) PROVE (Found' /\ RecordedIsUsable')
  BY <1>5, EndsRecord DEF Typed, Crash
<1> QED BY <1>1, <1>2, <1>3, <1>4, <1>5 DEF Next

(* Calls and sessions stay as they are while nobody joins or closes one.    *)
LEMMA SessionsFrame ==
    ASSUME Joined, RetiredSessionsDrain, UNCHANGED <<sessions, current, conn>>,
           \A u \in Threads : pc'[u] = "close" <=> pc[u] = "close",
           \A u \in Threads : pc'[u] \in {"call", "drop"} => pc[u] \in {"call", "drop"}
    PROVE  Joined' /\ RetiredSessionsDrain'
<1>1. Joined'
  BY DEF Joined
<1>2. RetiredSessionsDrain'
  BY DEF RetiredSessionsDrain
<1> QED BY <1>1, <1>2

LEMMA SessionsMove ==
    ASSUME Typed, Joined, RetiredSessionsDrain, UNCHANGED <<sessions, current, conn>>,
           NEW t \in Threads, NEW q \in Places, Go(t, q), pc[t] # "close", q # "close",
           q \in {"call", "drop"} => pc[t] \in {"call", "drop"}
    PROVE  Joined' /\ RetiredSessionsDrain'
<1>1. \A u \in Threads : u # t => pc'[u] = pc[u]
  BY DEF Go, Typed, TypeOK
<1>2. pc'[t] = q
  BY DEF Go, Typed, TypeOK
<1> QED BY <1>1, <1>2, SessionsFrame

(* A call joins a session that is current: nobody is about to close it.     *)
LEMMA JoinStep ==
    ASSUME Typed, Joined, RetiredSessionsDrain, NEW t \in Threads, Current(t) # 0, Join(t),
           UNCHANGED current, pc[t] # "close"
    PROVE  Joined' /\ RetiredSessionsDrain'
<1> DEFINE p == ProcOf[t]
           i == current[p]
           X == sessions[p][i].calls \cup {t}
<1>1. p \in Procs /\ i \in 1..Len(sessions[p]) /\ i # 0 /\ Recounted(p, i, X)
  BY JoinCounts, ThreadAssumption DEF Current
<1>2. pc'[t] = "call" /\ conn'[t] = i
  BY DEF Join, Go, Typed, TypeOK
<1>3. \A u \in Threads : u # t => pc'[u] = pc[u] /\ conn'[u] = conn[u]
  BY DEF Join, Go, Typed, TypeOK
<1> HIDE DEF p, i, X
<1>4. \A u \in Threads : ProcOf[u] \in Procs /\ conn[u] \in 0..Len(sessions[ProcOf[u]])
  BY ThreadAssumption DEF Typed, TypeOK
<1>5. ~sessions[p][i].retired /\ sessions[p][i].open
  BY <1>1 DEF RetiredSessionsDrain, i
<1>6. Joined'
  <2>1. ASSUME NEW u \in Threads, pc'[u] \in {"call", "drop"}
        PROVE  conn'[u] # 0 /\ u \in sessions'[ProcOf[u]][conn'[u]].calls
    <3>1. CASE u = t
      <4>1. sessions'[p][i].calls = X
        BY <1>1 DEF Recounted
      <4> QED BY <1>1, <1>2, <3>1, <4>1 DEF p, X
    <3>2. CASE u # t
      <4>1. conn[u] # 0 /\ u \in sessions[ProcOf[u]][conn[u]].calls
        BY <1>3, <2>1, <3>2 DEF Joined
      <4>2. conn[u] \in 1..Len(sessions[ProcOf[u]])
        BY <1>4, <4>1
      <4>3. CASE ProcOf[u] = p /\ conn[u] = i
        BY <1>1, <1>3, <3>2, <4>1, <4>3 DEF Recounted, X
      <4>4. CASE ~(ProcOf[u] = p /\ conn[u] = i)
        BY <1>1, <1>3, <1>4, <3>2, <4>1, <4>2, <4>4 DEF Recounted
      <4> QED BY <4>3, <4>4
    <3> QED BY <3>1, <3>2
  <2>2. ASSUME NEW u \in Threads, pc'[u] = "close"
        PROVE  /\ conn'[u] # 0 /\ conn'[u] # current'[ProcOf[u]]
               /\ sessions'[ProcOf[u]][conn'[u]].retired =>
                     /\ sessions'[ProcOf[u]][conn'[u]].calls = {}
                     /\ \A v \in Threads : ProcOf[v] = ProcOf[u] /\ pc'[v] = "close"
                                             /\ conn'[v] = conn'[u] => v = u
    <3>1. u # t /\ pc[u] = "close" /\ conn'[u] = conn[u]
      BY <1>2, <1>3, <2>2
    <3>2. conn[u] # 0 /\ conn[u] # current[ProcOf[u]]
      BY <3>1 DEF Joined
    <3>3. conn[u] \in 1..Len(sessions[ProcOf[u]]) /\ ~(ProcOf[u] = p /\ conn[u] = i)
      BY <1>4, <3>2 DEF i
    <3>4. /\ sessions'[ProcOf[u]][conn[u]].calls = sessions[ProcOf[u]][conn[u]].calls
          /\ sessions'[ProcOf[u]][conn[u]].retired = sessions[ProcOf[u]][conn[u]].retired
      BY <1>1, <1>4, <3>3 DEF Recounted
    <3>5. \A v \in Threads : pc'[v] = "close" => pc[v] = "close" /\ conn'[v] = conn[v]
      BY <1>2, <1>3
    <3> QED BY <3>1, <3>2, <3>4, <3>5 DEF Joined
  <2> QED BY <2>1, <2>2 DEF Joined
<1>7. RetiredSessionsDrain'
  <2>1. ASSUME NEW q \in Procs
        PROVE  /\ current'[q] # 0 => sessions'[q][current'[q]].open
                                     /\ ~sessions'[q][current'[q]].retired
    <3>1. current'[q] = current[q] /\ current[q] \in 0..Len(sessions[q])
      BY DEF Typed, TypeOK
    <3> QED BY <1>1, <3>1 DEF Recounted, RetiredSessionsDrain
  <2>2. ASSUME NEW q \in Procs, NEW j \in DOMAIN sessions'[q], sessions'[q][j].retired
        PROVE  sessions'[q][j].open <=>
                  \/ sessions'[q][j].calls # {}
                  \/ \E u \in Threads : ProcOf[u] = q /\ pc'[u] = "close" /\ conn'[u] = j
    <3>1. j \in 1..Len(sessions[q]) /\ j \in DOMAIN sessions[q]
      BY <1>1 DEF Recounted, Typed
    <3>2. sessions[q][j].retired /\ sessions'[q][j].open = sessions[q][j].open
      BY <1>1, <2>2, <3>1 DEF Recounted
    <3>3. ~(q = p /\ j = i)
      BY <1>5, <3>2
    <3>4. sessions'[q][j].calls = sessions[q][j].calls
      BY <1>1, <3>1, <3>3 DEF Recounted
    <3>5. \A u \in Threads : pc'[u] = "close" /\ conn'[u] = j <=> pc[u] = "close" /\ conn[u] = j
      BY <1>2, <1>3
    <3> QED BY <3>1, <3>2, <3>4, <3>5 DEF RetiredSessionsDrain
  <2> QED BY <2>1, <2>2 DEF RetiredSessionsDrain
<1> QED BY <1>6, <1>7


(* A call leaves its session: the last one on a retired session closes it.  *)
LEMMA DropStep ==
    ASSUME Typed, Joined, RetiredSessionsDrain, NEW t \in Threads, CallDrops(t)
    PROVE  Joined' /\ RetiredSessionsDrain'
<1> DEFINE p == ProcOf[t]
           i == conn[t]
           X == sessions[p][i].calls \ {t}
           last == sessions[p][i].retired /\ X = {}
<1>1. p \in Procs /\ i \in 1..Len(sessions[p]) /\ i # 0 /\ Recounted(p, i, X)
      /\ t \in sessions[p][i].calls
  <2>1. i # 0
    BY DEF Joined, CallDrops
  <2> QED BY <2>1, DropCounts
<1>2. current' = current /\ pc[t] = "drop"
  BY DEF CallDrops
<1>3. last => pc'[t] = "close" /\ conn'[t] = i
  BY DEF CallDrops, Go, Typed, TypeOK
<1>4. ~last => pc'[t] = "done" /\ conn'[t] = 0
  BY DEF CallDrops, Go, Typed, TypeOK
<1>5. \A u \in Threads : u # t => pc'[u] = pc[u] /\ conn'[u] = conn[u]
  BY DEF CallDrops, Go, Typed, TypeOK
<1>6. \A u \in Threads : ProcOf[u] \in Procs /\ conn[u] \in 0..Len(sessions[ProcOf[u]])
  BY ThreadAssumption DEF Typed, TypeOK
<1>7. sessions'[p][i].calls = X /\ (sessions'[p][i].retired <=> sessions[p][i].retired)
  BY <1>1 DEF Recounted
<1>8. sessions[p][i].retired => i # current[p]
  BY <1>1 DEF RetiredSessionsDrain
<1>9. sessions[p][i].retired =>
         \A u \in Threads : ~(ProcOf[u] = p /\ pc[u] = "close" /\ conn[u] = i)
  BY <1>1 DEF Joined, p
<1>10. sessions[p][i].retired => sessions[p][i].open
  BY <1>1 DEF RetiredSessionsDrain, Typed
<1>p. p = ProcOf[t]
  OBVIOUS
<1>x. t \notin X /\ \A u \in Threads : u # t /\ u \in sessions[p][i].calls => u \in X
  OBVIOUS
<1>l. last <=> sessions[p][i].retired /\ X = {}
  OBVIOUS
<1> HIDE DEF p, i, X, last
<1>11. Joined'
  <2>1. ASSUME NEW u \in Threads, pc'[u] \in {"call", "drop"}
        PROVE  conn'[u] # 0 /\ u \in sessions'[ProcOf[u]][conn'[u]].calls
    <3>1. u # t
      BY <1>3, <1>4, <2>1
    <3>2. conn'[u] = conn[u] /\ conn[u] # 0 /\ u \in sessions[ProcOf[u]][conn[u]].calls
      BY <1>5, <2>1, <3>1 DEF Joined
    <3>3. conn[u] \in 1..Len(sessions[ProcOf[u]])
      BY <1>6, <3>2
    <3>4. CASE ProcOf[u] = p /\ conn[u] = i
      BY <1>7, <1>x, <3>1, <3>2, <3>4
    <3>5. CASE ~(ProcOf[u] = p /\ conn[u] = i)
      BY <1>1, <1>6, <3>2, <3>3, <3>5 DEF Recounted
    <3> QED BY <3>4, <3>5
  <2>2. ASSUME NEW u \in Threads, pc'[u] = "close"
        PROVE  /\ conn'[u] # 0 /\ conn'[u] # current'[ProcOf[u]]
               /\ sessions'[ProcOf[u]][conn'[u]].retired =>
                     /\ sessions'[ProcOf[u]][conn'[u]].calls = {}
                     /\ \A v \in Threads : ProcOf[v] = ProcOf[u] /\ pc'[v] = "close"
                                             /\ conn'[v] = conn'[u] => v = u
    <3>1. CASE u = t
      <4>1. last /\ conn'[t] = i /\ sessions[p][i].retired /\ X = {}
        BY <1>3, <1>4, <1>l, <2>2, <3>1
      <4>2. \A v \in Threads : ProcOf[v] = p /\ pc'[v] = "close" /\ conn'[v] = i => v = t
        BY <1>5, <1>9, <4>1
      <4> QED BY <1>1, <1>2, <1>7, <1>8, <1>p, <3>1, <4>1, <4>2
    <3>2. CASE u # t
      <4>1. pc[u] = "close" /\ conn'[u] = conn[u] /\ conn[u] # 0 /\ conn[u] # current[ProcOf[u]]
        BY <1>5, <2>2, <3>2 DEF Joined
      <4>2. conn[u] \in 1..Len(sessions[ProcOf[u]])
        BY <1>6, <4>1
      <4>3. CASE ProcOf[u] = p /\ conn[u] = i
        BY <1>2, <1>7, <1>9, <4>1, <4>3
      <4>4. CASE ~(ProcOf[u] = p /\ conn[u] = i)
        <5>1. /\ sessions'[ProcOf[u]][conn[u]].calls = sessions[ProcOf[u]][conn[u]].calls
              /\ sessions'[ProcOf[u]][conn[u]].retired = sessions[ProcOf[u]][conn[u]].retired
          BY <1>1, <1>6, <4>2, <4>4 DEF Recounted
        <5>2. \A v \in Threads : ProcOf[v] = ProcOf[u] /\ pc'[v] = "close" /\ conn'[v] = conn[u]
                                    => pc[v] = "close" /\ conn[v] = conn[u]
          BY <1>3, <1>4, <1>5, <1>p, <4>4
        <5> QED BY <1>2, <4>1, <5>1, <5>2 DEF Joined
      <4> QED BY <4>3, <4>4
    <3> QED BY <3>1, <3>2
  <2> QED BY <2>1, <2>2 DEF Joined
<1>12. RetiredSessionsDrain'
  <2>1. ASSUME NEW q \in Procs
        PROVE  /\ current'[q] # 0 => sessions'[q][current'[q]].open
                                     /\ ~sessions'[q][current'[q]].retired
    <3>1. current'[q] = current[q] /\ current[q] \in 0..Len(sessions[q])
      BY <1>2 DEF Typed, TypeOK
    <3> QED BY <1>1, <3>1 DEF Recounted, RetiredSessionsDrain
  <2>2. ASSUME NEW q \in Procs, NEW j \in DOMAIN sessions'[q], sessions'[q][j].retired
        PROVE  sessions'[q][j].open <=>
                  \/ sessions'[q][j].calls # {}
                  \/ \E u \in Threads : ProcOf[u] = q /\ pc'[u] = "close" /\ conn'[u] = j
    <3>1. j \in 1..Len(sessions[q]) /\ j \in DOMAIN sessions[q]
      BY <1>1 DEF Recounted, Typed
    <3>2. sessions[q][j].retired /\ sessions'[q][j].open = sessions[q][j].open
      BY <1>1, <2>2, <3>1 DEF Recounted
    <3>3. CASE q = p /\ j = i
      <4>1. sessions'[q][j].open
        BY <1>10, <3>2, <3>3
      <4>2. X = {} => pc'[t] = "close" /\ conn'[t] = i
        BY <1>3, <1>l, <3>2, <3>3
      <4> QED BY <1>7, <1>p, <3>3, <4>1, <4>2
    <3>4. CASE ~(q = p /\ j = i)
      <4>1. sessions'[q][j].calls = sessions[q][j].calls
        BY <1>1, <3>1, <3>4 DEF Recounted
      <4>2. \A u \in Threads : ProcOf[u] = q =>
               (pc'[u] = "close" /\ conn'[u] = j <=> pc[u] = "close" /\ conn[u] = j)
        BY <1>2, <1>3, <1>4, <1>5, <1>p, <3>4
      <4> QED BY <3>1, <3>2, <4>1, <4>2 DEF RetiredSessionsDrain
    <3> QED BY <3>3, <3>4
  <2> QED BY <2>1, <2>2 DEF RetiredSessionsDrain
<1> QED BY <1>11, <1>12

(* A session is closed by the one thread that was to close it.              *)
LEMMA CloseStep ==
    ASSUME Typed, Joined, RetiredSessionsDrain, NEW t \in Threads, SessionCloses(t)
    PROVE  Joined' /\ RetiredSessionsDrain'
<1> DEFINE p == ProcOf[t]
           i == conn[t]
<1>1. p \in Procs /\ i \in 1..Len(sessions[p]) /\ Closed(p, i)
  BY CloseCounts
<1>2. current' = current /\ conn' = conn /\ pc[t] = "close"
  BY DEF SessionCloses, locals
<1>3. pc'[t] \notin {"close", "call", "drop"} /\ \A u \in Threads : u # t => pc'[u] = pc[u]
  BY DEF SessionCloses, Go, Typed, TypeOK
<1>4. i # current[p] /\ (sessions[p][i].retired =>
         /\ sessions[p][i].calls = {}
         /\ \A u \in Threads : ProcOf[u] = p /\ pc[u] = "close" /\ conn[u] = i => u = t)
  BY <1>2 DEF Joined
<1>5. \A u \in Threads : ProcOf[u] \in Procs /\ conn[u] \in 0..Len(sessions[ProcOf[u]])
  BY ThreadAssumption DEF Typed, TypeOK
<1>6. \A u \in Threads : pc'[u] = "close" => pc[u] = "close"
  BY <1>3
<1>p. p = ProcOf[t] /\ i = conn[t]
  OBVIOUS
<1> HIDE DEF p, i
<1>7. Joined'
  <2>1. ASSUME NEW u \in Threads, conn[u] # 0
        PROVE  /\ sessions'[ProcOf[u]][conn[u]].calls = sessions[ProcOf[u]][conn[u]].calls
               /\ sessions'[ProcOf[u]][conn[u]].retired = sessions[ProcOf[u]][conn[u]].retired
    <3>1. conn[u] \in 1..Len(sessions[ProcOf[u]])
      BY <1>5, <2>1
    <3> QED BY <1>1, <1>5, <3>1 DEF Closed
  <2>2. ASSUME NEW u \in Threads, pc'[u] \in {"call", "drop"}
        PROVE  conn'[u] # 0 /\ u \in sessions'[ProcOf[u]][conn'[u]].calls
    <3>1. conn[u] # 0 /\ u \in sessions[ProcOf[u]][conn[u]].calls
      BY <1>3, <2>2 DEF Joined
    <3> QED BY <1>2, <2>1, <3>1
  <2>3. ASSUME NEW u \in Threads, pc'[u] = "close"
        PROVE  /\ conn'[u] # 0 /\ conn'[u] # current'[ProcOf[u]]
               /\ sessions'[ProcOf[u]][conn'[u]].retired =>
                     /\ sessions'[ProcOf[u]][conn'[u]].calls = {}
                     /\ \A v \in Threads : ProcOf[v] = ProcOf[u] /\ pc'[v] = "close"
                                             /\ conn'[v] = conn'[u] => v = u
    <3>1. pc[u] = "close" /\ conn[u] # 0
      BY <1>6, <2>3 DEF Joined
    <3> QED BY <1>2, <1>6, <2>1, <3>1 DEF Joined
  <2> QED BY <2>2, <2>3 DEF Joined
<1>8. RetiredSessionsDrain'
  <2>1. ASSUME NEW q \in Procs
        PROVE  /\ current'[q] # 0 => sessions'[q][current'[q]].open
                                     /\ ~sessions'[q][current'[q]].retired
    <3>1. current'[q] = current[q] /\ current[q] \in 0..Len(sessions[q])
      BY <1>2 DEF Typed, TypeOK
    <3>2. ~(q = p /\ current[q] = i)
      BY <1>4
    <3>3. current[q] # 0 => sessions'[q][current[q]] = sessions[q][current[q]]
      BY <1>1, <3>1, <3>2 DEF Closed
    <3> QED BY <3>1, <3>3 DEF RetiredSessionsDrain
  <2>2. ASSUME NEW q \in Procs, NEW j \in DOMAIN sessions'[q], sessions'[q][j].retired
        PROVE  sessions'[q][j].open <=>
                  \/ sessions'[q][j].calls # {}
                  \/ \E u \in Threads : ProcOf[u] = q /\ pc'[u] = "close" /\ conn'[u] = j
    <3>1. j \in 1..Len(sessions[q]) /\ j \in DOMAIN sessions[q]
      BY <1>1 DEF Closed, Typed
    <3>2. sessions[q][j].retired /\ sessions'[q][j].calls = sessions[q][j].calls
      BY <1>1, <2>2, <3>1 DEF Closed
    <3>3. CASE q = p /\ j = i
      <4>1. ~sessions'[q][j].open
        BY <1>1, <3>1, <3>3 DEF Closed
      <4>2. sessions'[q][j].calls = {}
        BY <1>4, <3>2, <3>3
      <4>3. \A u \in Threads : ProcOf[u] = q /\ pc'[u] = "close" => conn[u] # j
        BY <1>3, <1>4, <1>6, <3>2, <3>3
      <4> QED BY <1>2, <4>1, <4>2, <4>3
    <3>4. CASE ~(q = p /\ j = i)
      <4>1. sessions'[q][j] = sessions[q][j]
        BY <1>1, <3>1, <3>4 DEF Closed
      <4>2. \A u \in Threads : ProcOf[u] = q /\ conn[u] = j => (pc'[u] = "close" <=> pc[u] = "close")
        BY <1>3, <1>p, <3>4
      <4> QED BY <1>2, <3>1, <3>2, <4>1, <4>2 DEF RetiredSessionsDrain
    <3> QED BY <3>3, <3>4
  <2> QED BY <2>1, <2>2 DEF RetiredSessionsDrain
<1> QED BY <1>7, <1>8


(* The task ended: the current session is nobody's any more and is closed.  *)
LEMMA ProxyClosesStep ==
    ASSUME Typed, Joined, RetiredSessionsDrain, NEW t \in Threads, ProxyCloses(t)
    PROVE  Joined' /\ RetiredSessionsDrain'
<1> DEFINE p == ProcOf[t]
           i == current[p]
<1>1. p \in Procs /\ i \in 0..Len(sessions[p])
  BY ThreadAssumption DEF Typed, TypeOK
<1>2. sessions' = sessions /\ pc[t] = "idle" /\ conn'[t] = i /\ current'[p] = 0
      /\ \A q \in Procs : q # p => current'[q] = current[q]
  BY <1>1 DEF ProxyCloses, Current, Typed, TypeOK
<1>3. pc'[t] \in {"exit", "close"} /\ (pc'[t] = "close" <=> i # 0)
  BY DEF ProxyCloses, Current, Go, Typed, TypeOK
<1>4. \A u \in Threads : u # t => pc'[u] = pc[u] /\ conn'[u] = conn[u]
  BY DEF ProxyCloses, Go, Typed, TypeOK
<1>5. i # 0 => sessions[p][i].open /\ ~sessions[p][i].retired
  BY <1>1 DEF RetiredSessionsDrain
<1>6. \A u \in Threads : ProcOf[u] \in Procs /\ conn[u] \in Nat
  BY ThreadAssumption DEF Typed
<1>p. p = ProcOf[t]
  OBVIOUS
<1>i. i = current[p]
  OBVIOUS
<1> HIDE DEF p, i
<1>7. Joined'
  <2>1. ASSUME NEW u \in Threads, pc'[u] \in {"call", "drop"}
        PROVE  conn'[u] # 0 /\ u \in sessions'[ProcOf[u]][conn'[u]].calls
    BY <1>2, <1>3, <1>4, <2>1 DEF Joined
  <2>2. ASSUME NEW u \in Threads, pc'[u] = "close"
        PROVE  /\ conn'[u] # 0 /\ conn'[u] # current'[ProcOf[u]]
               /\ sessions'[ProcOf[u]][conn'[u]].retired =>
                     /\ sessions'[ProcOf[u]][conn'[u]].calls = {}
                     /\ \A v \in Threads : ProcOf[v] = ProcOf[u] /\ pc'[v] = "close"
                                             /\ conn'[v] = conn'[u] => v = u
    <3>1. CASE u = t
      BY <1>2, <1>3, <1>5, <1>p, <2>2, <3>1
    <3>2. CASE u # t
      <4>1. pc[u] = "close" /\ conn'[u] = conn[u] /\ conn[u] # 0 /\ conn[u] # current[ProcOf[u]]
        BY <1>4, <2>2, <3>2 DEF Joined
      <4>2. conn[u] # current'[ProcOf[u]]
        BY <1>2, <1>6, <4>1
      <4>3. sessions[ProcOf[u]][conn[u]].retired => ~(ProcOf[u] = p /\ conn[u] = i)
        BY <1>5, <4>1
      <4>4. sessions[ProcOf[u]][conn[u]].retired =>
               \A v \in Threads : ProcOf[v] = ProcOf[u] /\ pc'[v] = "close" /\ conn'[v] = conn[u]
                                     => pc[v] = "close" /\ conn[v] = conn[u]
        BY <1>2, <1>4, <1>p, <4>3
      <4> QED BY <1>2, <4>1, <4>2, <4>4 DEF Joined
    <3> QED BY <3>1, <3>2
  <2> QED BY <2>1, <2>2 DEF Joined
<1>8. RetiredSessionsDrain'
  <2>1. ASSUME NEW q \in Procs
        PROVE  /\ current'[q] # 0 => sessions'[q][current'[q]].open
                                     /\ ~sessions'[q][current'[q]].retired
    BY <1>2 DEF RetiredSessionsDrain
  <2>2. ASSUME NEW q \in Procs, NEW j \in DOMAIN sessions'[q], sessions'[q][j].retired
        PROVE  sessions'[q][j].open <=>
                  \/ sessions'[q][j].calls # {}
                  \/ \E u \in Threads : ProcOf[u] = q /\ pc'[u] = "close" /\ conn'[u] = j
    <3>1. j # 0
      BY <1>2 DEF Typed
    <3>2. ~(q = p /\ j = i)
      BY <1>2, <1>5, <2>2, <3>1
    <3>3. \A u \in Threads : ProcOf[u] = q =>
             (pc'[u] = "close" /\ conn'[u] = j <=> pc[u] = "close" /\ conn[u] = j)
      BY <1>2, <1>4, <1>p, <3>2
    <3> QED BY <1>2, <2>2, <3>3 DEF RetiredSessionsDrain
  <2> QED BY <2>1, <2>2 DEF RetiredSessionsDrain
<1> QED BY <1>7, <1>8

(* A switch retires the current session; it stays open for its calls only.  *)
LEMMA SwitchStep ==
    ASSUME Typed, Joined, RetiredSessionsDrain, NEW t \in Threads, cand[t] \in Bundles,
           SessionSwitched(t), UNCHANGED conn, pc[t] \in {"ensure", "restore"}
    PROVE  Joined' /\ RetiredSessionsDrain'
<1> DEFINE p == ProcOf[t]
           i == current[p]
           n == Len(sessions[p])
<1>1. p \in Procs /\ n \in Nat /\ i \in 0..n
  BY ThreadAssumption DEF Typed, TypeOK
<1>2. current' = [current EXCEPT ![p] = n + 1]
      /\ \A q \in Procs : Len(sessions'[q]) = IF q = p THEN n + 1 ELSE Len(sessions[q])
  BY SwitchSessions
<1>3. sessions' \in [Procs -> Seq(Session)]
      /\ \A q \in Procs : \A j \in 1..Len(sessions'[q]) : sessions'[q][j] = Switched(t, q, j)
  BY SwitchSessions
<1>4. pc'[t] = "prune" /\ \A u \in Threads : u # t => pc'[u] = pc[u]
  BY DEF SessionSwitched, Go, Typed, TypeOK
<1>5. \A u \in Threads : ProcOf[u] \in Procs /\ conn[u] \in 0..Len(sessions[ProcOf[u]])
                         /\ Len(sessions[ProcOf[u]]) \in Nat
  BY ThreadAssumption DEF Typed, TypeOK
<1>6. current'[p] = n + 1 /\ \A q \in Procs : q # p => current'[q] = current[q]
  BY <1>1, <1>2 DEF Typed
<1>7. ASSUME NEW q \in Procs, NEW j \in 1..Len(sessions'[q])
      PROVE  /\ q = p /\ j = n + 1 => /\ sessions'[q][j].calls = {} /\ sessions'[q][j].open
                                      /\ ~sessions'[q][j].retired
             /\ ~(q = p /\ j = n + 1) /\ q = p /\ j = i =>
                   /\ sessions'[q][j].calls = sessions[q][j].calls
                   /\ sessions'[q][j].open <=> sessions[q][j].calls # {}
             /\ ~(q = p /\ j = n + 1) /\ ~(q = p /\ j = i) => sessions'[q][j] = sessions[q][j]
  <2>1. sessions'[q][j] = Switched(t, q, j)
    BY <1>3
  <2>2. CASE q = p /\ j = n + 1
    BY <2>1, <2>2 DEF Switched
  <2>3. CASE ~(q = p /\ j = n + 1) /\ q = p /\ j = i
    <3> DEFINE b == sessions[q][j].calls # {}
    <3>1. sessions'[q][j] = [bundle |-> sessions[q][j].bundle, calls |-> sessions[q][j].calls,
                             retired |-> TRUE, open |-> b]
      BY <2>1, <2>3 DEF Switched
    <3>2. b \in BOOLEAN /\ (b <=> sessions[q][j].calls # {})
      OBVIOUS
    <3> HIDE DEF b
    <3>3. sessions'[q][j].open = b /\ sessions'[q][j].calls = sessions[q][j].calls
      BY <3>1
    <3> QED BY <2>3, <3>2, <3>3
  <2>4. CASE ~(q = p /\ j = n + 1) /\ ~(q = p /\ j = i)
    BY <2>1, <2>4 DEF Switched
  <2> QED BY <2>2, <2>3, <2>4
<1> HIDE DEF p, i, n
<1>8. ASSUME NEW u \in Threads, conn[u] # 0
      PROVE  /\ conn[u] \in 1..Len(sessions'[ProcOf[u]])
             /\ sessions'[ProcOf[u]][conn[u]].calls = sessions[ProcOf[u]][conn[u]].calls
             /\ ~(ProcOf[u] = p /\ conn[u] = i) =>
                   sessions'[ProcOf[u]][conn[u]] = sessions[ProcOf[u]][conn[u]]
             /\ conn[u] # n + 1 \/ ProcOf[u] # p
  <2>1. conn[u] \in 1..Len(sessions[ProcOf[u]])
    BY <1>5, <1>8
  <2>2. conn[u] \in 1..Len(sessions'[ProcOf[u]]) /\ ~(ProcOf[u] = p /\ conn[u] = n + 1)
    BY <1>1, <1>2, <1>5, <2>1 DEF n
  <2>3. CASE ProcOf[u] = p /\ conn[u] = i
    BY <1>1, <1>7, <2>2, <2>3
  <2>4. CASE ~(ProcOf[u] = p /\ conn[u] = i)
    <3>1. sessions'[ProcOf[u]][conn[u]] = sessions[ProcOf[u]][conn[u]]
      BY <1>5, <1>7, <2>2, <2>4
    <3> QED BY <2>2, <3>1
  <2> QED BY <2>3, <2>4
<1>9. Joined'
  <2>1. ASSUME NEW u \in Threads, pc'[u] \in {"call", "drop"}
        PROVE  conn'[u] # 0 /\ u \in sessions'[ProcOf[u]][conn'[u]].calls
    BY <1>4, <1>8, <2>1 DEF Joined
  <2>2. ASSUME NEW u \in Threads, pc'[u] = "close"
        PROVE  /\ conn'[u] # 0 /\ conn'[u] # current'[ProcOf[u]]
               /\ sessions'[ProcOf[u]][conn'[u]].retired =>
                     /\ sessions'[ProcOf[u]][conn'[u]].calls = {}
                     /\ \A v \in Threads : ProcOf[v] = ProcOf[u] /\ pc'[v] = "close"
                                             /\ conn'[v] = conn'[u] => v = u
    <3>1. u # t /\ pc[u] = "close" /\ conn[u] # 0 /\ conn[u] # current[ProcOf[u]]
      BY <1>4, <2>2 DEF Joined
    <3>2. sessions'[ProcOf[u]][conn[u]] = sessions[ProcOf[u]][conn[u]]
      BY <1>8, <3>1 DEF i
    <3>3. conn[u] # current'[ProcOf[u]]
      BY <1>5, <1>6, <1>8, <3>1
    <3>4. \A v \in Threads : pc'[v] = "close" => pc[v] = "close"
      BY <1>4
    <3> QED BY <3>1, <3>2, <3>3, <3>4 DEF Joined
  <2> QED BY <2>1, <2>2 DEF Joined
<1>10. RetiredSessionsDrain'
  <2>1. ASSUME NEW q \in Procs
        PROVE  /\ current'[q] # 0 => sessions'[q][current'[q]].open
                                     /\ ~sessions'[q][current'[q]].retired
    <3>1. CASE q = p
      <4>1. current'[q] = n + 1 /\ n + 1 \in 1..Len(sessions'[q])
        BY <1>1, <1>2, <1>6, <3>1
      <4> QED BY <1>7, <3>1, <4>1
    <3>2. CASE q # p
      <4>1. current'[q] = current[q] /\ Len(sessions'[q]) = Len(sessions[q])
        BY <1>2, <1>6, <3>2
      <4>2. current[q] \in 0..Len(sessions[q])
        BY DEF Typed, TypeOK
      <4>3. current[q] # 0 => sessions'[q][current[q]] = sessions[q][current[q]]
        BY <1>7, <3>2, <4>1, <4>2
      <4> QED BY <4>1, <4>3 DEF RetiredSessionsDrain
    <3> QED BY <3>1, <3>2
  <2>2. ASSUME NEW q \in Procs, NEW j \in DOMAIN sessions'[q], sessions'[q][j].retired
        PROVE  sessions'[q][j].open <=>
                  \/ sessions'[q][j].calls # {}
                  \/ \E u \in Threads : ProcOf[u] = q /\ pc'[u] = "close" /\ conn'[u] = j
    <3>1. j \in 1..Len(sessions'[q]) /\ ~(q = p /\ j = n + 1)
      BY <1>3, <1>7, <2>2
    <3>2. j \in 1..Len(sessions[q]) /\ j \in DOMAIN sessions[q]
      BY <1>1, <1>2, <3>1 DEF Typed, n
    <3>3. \A u \in Threads : pc'[u] = "close" <=> pc[u] = "close"
      BY <1>4
    <3>4. CASE q = p /\ j = i
      <4>1. sessions'[q][j].calls = sessions[q][j].calls
            /\ (sessions'[q][j].open <=> sessions[q][j].calls # {})
        BY <1>7, <3>1, <3>4
      <4>2. \A u \in Threads : pc[u] = "close" => ~(ProcOf[u] = q /\ conn[u] = j)
        BY <3>4 DEF Joined, i
      <4> QED BY <3>3, <4>1, <4>2
    <3>5. CASE ~(q = p /\ j = i)
      <4>1. sessions'[q][j] = sessions[q][j]
        BY <1>7, <3>1, <3>5
      <4> QED BY <2>2, <3>2, <3>3, <4>1 DEF RetiredSessionsDrain
    <3> QED BY <3>4, <3>5
  <2> QED BY <2>1, <2>2 DEF RetiredSessionsDrain
<1> QED BY <1>9, <1>10

(* What a process leaves when it ends.                                      *)
LEMMA EndsStep ==
    ASSUME Typed, Joined, RetiredSessionsDrain, NEW p \in Procs, Ends(p)
    PROVE  Joined' /\ RetiredSessionsDrain'
<1>1. \A u \in Threads : IF ProcOf[u] = p THEN pc'[u] = "dead"
                         ELSE pc'[u] = pc[u] /\ conn'[u] = conn[u]
  BY DEF Ends
<1>2. sessions'[p] = <<>> /\ current'[p] = 0
      /\ \A q \in Procs : q # p => sessions'[q] = sessions[q] /\ current'[q] = current[q]
  BY DEF Ends, Typed
<1>3. \A u \in Threads : ProcOf[u] \in Procs
  BY ThreadAssumption
<1>4. Joined'
  BY <1>1, <1>2, <1>3 DEF Joined
<1>5. RetiredSessionsDrain'
  <2>1. ASSUME NEW q \in Procs
        PROVE  /\ current'[q] # 0 => sessions'[q][current'[q]].open
                                     /\ ~sessions'[q][current'[q]].retired
    BY <1>2 DEF RetiredSessionsDrain
  <2>2. ASSUME NEW q \in Procs, NEW j \in DOMAIN sessions'[q], sessions'[q][j].retired
        PROVE  sessions'[q][j].open <=>
                  \/ sessions'[q][j].calls # {}
                  \/ \E u \in Threads : ProcOf[u] = q /\ pc'[u] = "close" /\ conn'[u] = j
    <3>1. q # p
      BY <1>2
    <3> QED BY <1>1, <1>2, <2>2, <3>1 DEF RetiredSessionsDrain
  <2> QED BY <2>1, <2>2 DEF RetiredSessionsDrain
<1> QED BY <1>4, <1>5

(* A switch cuts no call and leaks no session.                              *)
LEMMA SessionsStep ==
    ASSUME Typed, Held, Leases, LeasedSlotsExist, Joined, RetiredSessionsDrain, Found, Next
    PROVE  Joined' /\ RetiredSessionsDrain'
<1>1. CASE HostInstalls
  BY <1>1, SessionsFrame DEF files, proxy, locals, HostInstalls
<1>2. ASSUME NEW t \in Threads, Starts(t) PROVE (Joined' /\ RetiredSessionsDrain')
  <2> ProcOf[t] \in Procs
    BY ThreadAssumption
  <2>1. CASE CallStarts(t)
    <3>1. CASE Current(t) = 0
      BY <2>1, <3>1, SessionsMove DEF Places, Waiting, CallStarts
    <3>2. CASE Current(t) # 0
      BY <2>1, <3>2, JoinStep DEF CallStarts
    <3> QED BY <3>1, <3>2
  <2>2. CASE MonitorWakes(t)
    BY <2>2, SessionsMove DEF Places, Waiting, host, files, proxy, locals,
       MonitorWakes
  <2>3. CASE ProxyCloses(t)
    BY <2>3, ProxyClosesStep DEF Typed, ProxyCloses
  <2> QED BY <1>2, <2>1, <2>2, <2>3 DEF Starts
<1>3. ASSUME NEW t \in Threads, ThreadStep(t) PROVE (Joined' /\ RetiredSessionsDrain')
  <2> ProcOf[t] \in Procs
    BY ThreadAssumption
  <2>1. CASE CallPicks(t)
    <3>1. CASE Current(t) = 0
      BY <2>1, <3>1, SessionsMove DEF Places, Waiting, CallPicks
    <3>2. CASE Current(t) # 0
      BY <2>1, <3>2, JoinStep DEF CallPicks
    <3> QED BY <3>1, <3>2
  <2>2. CASE CallAnswered(t)
    BY <2>2, SessionsMove DEF Places, Waiting, host, files, proxy, locals,
       CallAnswered
  <2>3. CASE CallDrops(t)
    BY <2>3, DropStep DEF Typed, CallDrops
  <2>4. CASE SessionCloses(t)
    BY <2>4, CloseStep DEF Typed, SessionCloses
  <2>5. CASE CommandEnds(t)
    BY <2>5, SessionsMove DEF Places, Waiting, host, files, proxy, locals,
       CommandEnds
  <2>6. CASE ProxyExits(t)
    BY <2>6, EndsStep DEF Typed, ProxyExits
  <2>7. CASE LockTaken(t)
    <3>1. PICK q \in {"install", "rejecting", "collect"} : Go(t, q)
      BY <2>7, NextPlaces DEF LockTaken, Waiting
    <3> QED BY <2>7, <3>1, SessionsMove DEF Places, Waiting, host, files,
       proxy, locals, LockTaken
  <2>8. CASE LockTimesOut(t)
    <3>1. PICK q \in {"idle", "pick", "exit", "done"} : Go(t, q)
      BY <2>8, NextPlaces DEF LockTimesOut
    <3> QED BY <2>8, <3>1, SessionsMove DEF Places, Waiting, host, files,
       proxy, locals, LockTimesOut
  <2>9. CASE RecordedReused(t)
    <3>1. PICK q \in {"restore", "exec", "enter"} : Go(t, q)
      BY <2>9, NextPlaces DEF RecordedReused, Leave
    <3> QED BY <2>9, <3>1, SessionsMove DEF Places, Waiting, host, files,
       proxy, locals, RecordedReused
  <2>10. CASE SlotMovedAside(t)
    BY <2>10, SessionsFrame DEF files, proxy, locals, SlotMovedAside
  <2>11. CASE SourcesInstalled(t)
    BY <2>11, SessionsMove DEF Places, Waiting, host, files, proxy,
       locals, SourcesInstalled
  <2>12. CASE CandidateChosen(t)
    <3>1. PICK q \in {"idle", "done", "restore", "exec", "enter"} : Go(t, q)
      BY <2>12, ChosenIsWhole, NextPlaces DEF Nothing, Selected, Leave
    <3> QED BY <2>12, <3>1, SessionsMove DEF Places, proxy, CandidateChosen
  <2>13. CASE MuTaken(t)
    BY <2>13, SessionsMove DEF Places, Waiting, host, files, proxy,
       locals, MuTaken
  <2>14. CASE AlreadyCurrent(t)
    <3>1. PICK q \in {"idle", "pick"} : Go(t, q)
      BY <2>14, NextPlaces DEF AlreadyCurrent
    <3> QED BY <2>14, <3>1, SessionsMove DEF Places, Waiting, host, files,
       proxy, locals, AlreadyCurrent
  <2>15. CASE CandidateConnects(t)
    <3>1. cand[t] \in Bundles
      BY <2>15, LeasedCandidate DEF Leasing, CandidateConnects
    <3> QED BY <2>15, <3>1, SwitchStep DEF locals, CandidateConnects
  <2>16. CASE ContractDiffers(t)
    <3>1. PICK q \in {"idle", "pick", "reject"} : Go(t, q)
      BY <2>16, NextPlaces DEF ContractDiffers
    <3> QED BY <2>16, <3>1, SessionsMove DEF Places, Waiting, host, files,
       proxy, locals, ContractDiffers
  <2>17. CASE CandidateFails(t)
    BY <2>17, SessionsMove DEF Places, Waiting, host, files, proxy,
       locals, CandidateFails
  <2>18. CASE Rejected(t)
    <3>1. PICK q \in {"idle", "pick", "done", "again"} : Go(t, q)
      BY <2>18, NextPlaces DEF Rejected
    <3> QED BY <2>18, <3>1, SessionsMove DEF Places, Waiting, host, files,
       proxy, locals, Rejected
  <2>19. CASE RestoredConnects(t)
    <3>1. cand[t] \in Bundles
      BY <2>19, LeasedCandidate DEF Leasing, RestoredConnects
    <3> QED BY <2>19, <3>1, SwitchStep DEF locals, RestoredConnects
  <2>20. CASE RestoredFails(t)
    <3>1. PICK q \in {"idle", "done"} : Go(t, q)
      BY <2>20, NextPlaces DEF RestoredFails
    <3> QED BY <2>20, <3>1, SessionsMove DEF Places, Waiting, host, files,
       proxy, locals, RestoredFails
  <2>21. CASE SlotKept(t)
    BY <2>21, SessionsFrame DEF files, proxy, locals, SlotKept
  <2>22. CASE SlotRemoved(t)
    BY <2>22, SessionsFrame DEF files, proxy, locals, SlotRemoved
  <2>23. CASE Collected(t)
    <3>1. PICK q \in {"idle", "pick", "exit", "done"} : Go(t, q)
      BY <2>23, NextPlaces DEF Collected
    <3> QED BY <2>23, <3>1, SessionsMove DEF Places, Waiting, host, files,
       proxy, locals, Collected
  <2> QED BY <1>3, <2>1, <2>2, <2>3, <2>4, <2>5, <2>6, <2>7, <2>8, <2>9,
     <2>10, <2>11, <2>12, <2>13, <2>14, <2>15, <2>16, <2>17, <2>18, <2>19,
     <2>20, <2>21, <2>22, <2>23 DEF ThreadStep
<1>4. ASSUME NEW p \in Procs, ProcessStarts(p) PROVE (Joined' /\ RetiredSessionsDrain')
  <2>1. \A u \in Threads : pc'[u] = "close" <=> pc[u] = "close"
    BY <1>4 DEF ProcessStarts
  <2>2. \A u \in Threads : pc'[u] \in {"call", "drop"} => pc[u] \in {"call", "drop"}
    BY <1>4 DEF ProcessStarts
  <2> QED BY <1>4, <2>1, <2>2, SessionsFrame DEF locals, ProcessStarts
<1>5. ASSUME NEW p \in Procs, Crash(p) PROVE (Joined' /\ RetiredSessionsDrain')
  BY <1>5, EndsStep DEF Typed, Crash
<1> QED BY <1>1, <1>2, <1>3, <1>4, <1>5 DEF Next

-----------------------------------------------------------------------------
(* The invariant holds in the beginning, and every step keeps it.           *)
LEMMA Begins == Init => IInv
<1> SUFFICES ASSUME Init PROVE IInv
  OBVIOUS
<1> USE DEF Init
<1>1. cache \in Seq(Bundles) /\ cache # <<>>
  <2>1. PICK p \in Procs : cache = <<Home[p]>>
    OBVIOUS
  <2>2. Home[p] \in Bundles
    BY ThreadAssumption
  <2> QED BY <2>1, <2>2
<1>2. \A p \in Procs : sessions[p] = <<>>
  OBVIOUS
<1>3. Typed
  BY <1>1, <1>2, ThreadAssumption, BoundAssumption DEF Typed, TypeOK, Places
<1>4. Held
  BY NoneAssumption DEF Held, Locking, Leasing
<1>5. Found /\ Leases /\ Joined
  BY DEF Found, Leases, Joined
<1>6. LeasedSlotsExist /\ RecordedIsUsable
  BY <1>2 DEF LeasedSlotsExist, RecordedIsUsable
<1>7. RetiredSessionsDrain
  BY <1>2 DEF RetiredSessionsDrain
<1> QED BY <1>3, <1>4, <1>5, <1>6, <1>7 DEF IInv

LEMMA Keeps == IInv /\ [Next]_vars => IInv'
<1> SUFFICES ASSUME IInv, [Next]_vars PROVE IInv'
  OBVIOUS
<1>1. CASE Next
  <2>1. Typed' /\ Held'
    BY <1>1, TypedStep, HeldStep DEF IInv
  <2>2. Leases' /\ LeasedSlotsExist'
    BY <1>1, <2>1, LeasesStep DEF IInv
  <2>3. Found' /\ RecordedIsUsable'
    BY <1>1, RecordStep DEF IInv
  <2>4. Joined' /\ RetiredSessionsDrain'
    BY <1>1, SessionsStep DEF IInv
  <2> QED BY <2>1, <2>2, <2>3, <2>4 DEF IInv
<1>2. CASE UNCHANGED vars
  <2>1. Typed'
    BY <1>2 DEF vars, host, files, proxy, locals, IInv, Typed, TypeOK
  <2>2. Held' /\ Found' /\ Leases' /\ Joined'
    BY <1>2 DEF vars, host, files, proxy, locals, IInv, Held, Found, Leases, Joined
  <2>3. LeasedSlotsExist' /\ RecordedIsUsable' /\ RetiredSessionsDrain'
    BY <1>2 DEF vars, host, files, proxy, locals, IInv, LeasedSlotsExist, RecordedIsUsable,
       RetiredSessionsDrain
  <2> QED BY <2>1, <2>2, <2>3 DEF IInv
<1> QED BY <1>1, <1>2

(* Whatever the processes install, switch to, roll back and collect, and    *)
(* wherever they die: every runtime that a lease, an open session or        *)
(* state.json names has a complete slot, and every variable its type        *)
(* (ResolveLeased, ensureSession, PruneObsoleteRuntimes).                   *)
THEOREM NamedSlots == Spec => []NamedSlotsExist
<1>1. IInv => NamedSlotsExist
  BY DEF IInv, Typed, NamedSlotsExist
<1> QED BY Begins, Keeps, <1>1, PTL DEF Spec

(* A retired session is open exactly while a call runs on it or its last    *)
(* call is about to close it; the current session is open and not retired   *)
(* (proxy.go, Forward, ensureSession, releaseSession and Close).            *)
THEOREM SessionsDrain == Spec => []RetiredSessionsDrain
<1>1. IInv => RetiredSessionsDrain
  BY DEF IInv
<1> QED BY Begins, Keeps, <1>1, PTL DEF Spec
=============================================================================
