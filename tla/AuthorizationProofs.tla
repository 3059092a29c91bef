-------------------------- MODULE AuthorizationProofs --------------------------
(***************************************************************************)
(* The authorizations of a channel under any number of runs, accounts,     *)
(* advertisers and tokens: the state file, the token in use, the refreshes *)
(* at the OAuth server.                                                    *)
(***************************************************************************)
EXTENDS Authorization, TLAPS

RunRecord ==
    [pc : Pcs, id : AuthorizationIds \cup {None}, advertiser : Advertisers \cup {None},
     seen : Tokens \cup {0}, revision : Tokens \cup {0}, token : Credentials \cup {None},
     accounts : SUBSET Accounts, file : Channels \cup {None}]

First == [access |-> 1, refresh |-> 1]
Auths == channel.authorizations

(* What is indexed is what the authorizations say.                         *)
Agree(c) ==
    /\ \A x \in Accounts : Holders(c.authorizations, x) = {c.owner[x]} \ {None}
    /\ \A v \in Advertisers :
          c.cover[v] = {a \in Known(c.authorizations) : v \in Covered(c.authorizations, a)}

(* The runs that hold the refresh lock of their authorization, and those   *)
(* that store the first token of a new one.                                *)
HoldsRefresh(r) ==
    Command[r] # "authorize" /\ run[r].pc \in {"decide", "wait", "write", "activate", "activating"}
Founding(r) == Command[r] = "authorize" /\ run[r].pc \in {"write", "activate", "activating"}

RunLocks(r) ==
    /\ HoldsRefresh(r) => refreshLock[run[r].id] = r
    /\ run[r].pc \in {"activating", "recording"} => channelLock = r /\ run[r].file = channel

RunKnows(r) ==
    /\ Command[r] = "authorize" => run[r].pc \notin {"lock", "decide", "wait"}
    /\ Command[r] = "authorize" /\ run[r].pc = "idle" => Auths[r] = None /\ run[r].revision = 0
    /\ HoldsRefresh(r) \/ run[r].pc \in {"lock", "discover", "record", "recording"}
          => run[r].id \in Known(Auths)

RunFounds(r) ==
    Founding(r) =>
        /\ run[r].id = r /\ run[r].revision = 0 /\ run[r].token = First
        /\ Auths[r] = None /\ valid[r] = 1 /\ issued[r] = 1
        /\ run[r].pc # "write" => credentials[r][1] = First

(* A refresh under way: nobody else changes the revision it started from,  *)
(* and the token it was given is the one the server goes on with.          *)
RunRefreshes(r) ==
    Refreshing(r) =>
        LET a == run[r].id IN
        /\ run[r].revision = Auths[a].revision
        /\ run[r].pc # "wait" => /\ run[r].revision + 1 <= issued[a] /\ run[r].token \in Credentials
                                 /\ a \notin interrupted => run[r].token.refresh = valid[a]
        /\ run[r].pc \in {"activate", "activating"} => credentials[a][run[r].revision + 1] = run[r].token

RunInv(r) == RunLocks(r) /\ RunKnows(r) /\ RunFounds(r) /\ RunRefreshes(r)

(* A request under way was made by a run that waits for it, with the token *)
(* in use, unless it was cut off.                                          *)
Asked(q) ==
    /\ q.id \in Known(Auths) /\ run[q.run].pc \notin {"idle", "lock", "decide"}
    /\ Command[q.run] # "authorize"
    /\ run[q.run].pc = "wait" => run[q.run].id = q.id
    /\ q.id \notin interrupted => /\ run[q.run].pc = "wait" /\ q.refresh = valid[q.id]
                                  /\ Active(q.id).refresh = valid[q.id]

AskedOnce == \A p, q \in inflight : p.run = q.run => p = q

(* The token in use is there, and it is the one the server takes while no  *)
(* refresh is under way.                                                   *)
Stored(a) ==
    /\ Active(a) # None /\ Auths[a].revision <= issued[a]
    /\ a \notin interrupted /\ (\A r \in Runs : Refreshing(r) => run[r].id # a)
          => Active(a).refresh = valid[a]

AuthInv ==
    /\ TypeOK /\ Agree(channel)
    /\ \A r \in Runs : RunInv(r)
    /\ AskedOnce /\ \A q \in inflight : Asked(q)
    /\ \A a \in Known(Auths) : Stored(a)

-----------------------------------------------------------------------------
(* The state file                                                          *)

LEMMA KnownRecord ==
    ASSUME NEW c \in Channels, NEW a \in Known(c.authorizations)
    PROVE  c.authorizations[a] \in Authorizations /\ a \in AuthorizationIds
BY DEF Known, Channels

(* The indexes of a file whose authorizations share no account agree.      *)
LEMMA ReindexedAgrees ==
    ASSUME NEW file, NEW auths \in [AuthorizationIds -> Authorizations \cup {None}],
           \A x \in Accounts : \A a, b \in Holders(auths, x) : a = b
    PROVE  /\ Reindexed(file, auths) \in Channels /\ Agree(Reindexed(file, auths))
           /\ Reindexed(file, auths).authorizations = auths
<1>1. \A x \in Accounts : Holders(auths, x) \subseteq AuthorizationIds
  BY DEF Holders, Known
<1>2. \A x \in Accounts : Owner(auths)[x] \in AuthorizationIds \cup {None}
                          /\ Holders(auths, x) = {Owner(auths)[x]} \ {None}
  <2> SUFFICES ASSUME NEW x \in Accounts
               PROVE  Owner(auths)[x] \in AuthorizationIds \cup {None}
                      /\ Holders(auths, x) = {Owner(auths)[x]} \ {None}
    OBVIOUS
  <2>1. CASE Holders(auths, x) = {}
    BY <2>1 DEF Owner
  <2>2. CASE Holders(auths, x) # {}
    <3>1. Owner(auths)[x] \in Holders(auths, x)
      BY <2>2 DEF Owner
    <3>2. None \notin AuthorizationIds
      BY NoneAssumption DEF AuthorizationIds
    <3> QED BY <1>1, <3>1, <3>2
  <2> QED BY <2>1, <2>2
<1>3. Owner(auths) \in [Accounts -> AuthorizationIds \cup {None}]
  <2>1. Owner(auths) = [x \in Accounts |-> Owner(auths)[x]]
    BY DEF Owner
  <2> QED BY <1>2, <2>1
<1> DEFINE cover == [v \in Advertisers |-> {a \in Known(auths) : v \in Covered(auths, a)}]
<1>4. cover \in [Advertisers -> SUBSET AuthorizationIds]
  BY DEF Known
<1>5. Reindexed(file, auths) = [authorizations |-> auths, owner |-> Owner(auths), cover |-> cover]
  BY DEF Reindexed
<1>6. Reindexed(file, auths) \in Channels
  BY <1>3, <1>4, <1>5 DEF Channels
<1>7. Agree(Reindexed(file, auths))
  BY <1>2, <1>5 DEF Agree
<1> QED BY <1>5, <1>6, <1>7

LEMMA WithAuthorizationAgrees ==
    ASSUME NEW c \in Channels, Agree(c), NEW a \in AuthorizationIds, c.authorizations[a] = None
    PROVE  LET new == WithAuthorization(c, a) IN
           /\ new \in Channels /\ Agree(new) /\ new.owner = c.owner
           /\ new.authorizations[a] = [revision |-> 1, pending |-> TRUE, accounts |-> {}]
           /\ \A b \in AuthorizationIds \ {a} : new.authorizations[b] = c.authorizations[b]
<1> DEFINE new == WithAuthorization(c, a) first == [revision |-> 1, pending |-> TRUE, accounts |-> {}]
<1>1. first \in Authorizations
  BY BoundAssumption DEF Authorizations, Tokens
<1>2. /\ new.authorizations = [c.authorizations EXCEPT ![a] = first] /\ new.owner = c.owner
      /\ new.cover = c.cover /\ new \in Channels
  BY <1>1 DEF WithAuthorization, Channels
<1>3. /\ new.authorizations[a] = first
      /\ \A b \in AuthorizationIds \ {a} : new.authorizations[b] = c.authorizations[b]
  BY <1>2 DEF Channels
<1>4. first # None /\ first.accounts = {}
  BY <1>1, AbsenceAssumption
<1> HIDE DEF new, first
<1>5. Known(new.authorizations) = Known(c.authorizations) \cup {a}
  BY <1>3, <1>4 DEF Known
<1>6. \A x \in Accounts : Holders(new.authorizations, x) = Holders(c.authorizations, x)
  BY <1>3, <1>4, <1>5 DEF Holders, Known
<1>7. Covered(new.authorizations, a) = {}
  BY <1>3, <1>4 DEF Covered
<1>8. \A b \in Known(c.authorizations) :
         b # a /\ Covered(new.authorizations, b) = Covered(c.authorizations, b)
  BY <1>3 DEF Known, Covered
<1>9. Agree(new)
  BY <1>2, <1>5, <1>6, <1>7, <1>8 DEF Agree
<1> QED BY <1>2, <1>3, <1>9 DEF new, first

LEMMA WithRevisionAgrees ==
    ASSUME NEW c \in Channels, Agree(c), NEW a \in Known(c.authorizations), NEW n \in Tokens
    PROVE  LET new == WithRevision(c, a, n) IN
           /\ new \in Channels /\ Agree(new) /\ new.owner = c.owner
           /\ Known(new.authorizations) = Known(c.authorizations) /\ new.authorizations[a].revision = n
           /\ \A b \in AuthorizationIds \ {a} : new.authorizations[b] = c.authorizations[b]
<1> DEFINE new == WithRevision(c, a, n) next == [c.authorizations[a] EXCEPT !.revision = n]
<1>1. c.authorizations[a] \in Authorizations /\ a \in AuthorizationIds
  BY KnownRecord
<1>2. next \in Authorizations /\ next.accounts = c.authorizations[a].accounts /\ next.revision = n
  BY <1>1 DEF Authorizations
<1>3. /\ new.authorizations = [c.authorizations EXCEPT ![a] = next] /\ new.owner = c.owner
      /\ new.cover = c.cover /\ new \in Channels
  BY <1>1, <1>2 DEF WithRevision, Channels
<1>4. /\ new.authorizations[a] = next
      /\ \A b \in AuthorizationIds \ {a} : new.authorizations[b] = c.authorizations[b]
  BY <1>1, <1>3 DEF Channels
<1>5. next # None
  BY <1>2, AbsenceAssumption
<1> HIDE DEF new, next
<1>6. Known(new.authorizations) = Known(c.authorizations)
  BY <1>4, <1>5 DEF Known
<1>7. \A b \in Known(c.authorizations) : new.authorizations[b].accounts = c.authorizations[b].accounts
  BY <1>2, <1>4 DEF Known
<1>8. \A x \in Accounts : Holders(new.authorizations, x) = Holders(c.authorizations, x)
  BY <1>6, <1>7 DEF Holders
<1>9. \A b \in Known(c.authorizations) : Covered(new.authorizations, b) = Covered(c.authorizations, b)
  BY <1>7 DEF Covered
<1>10. Agree(new)
  BY <1>3, <1>6, <1>8, <1>9 DEF Agree
<1> QED BY <1>2, <1>3, <1>4, <1>6, <1>10 DEF new

(* An account that passes on leaves the authorization that had it.         *)
LEMMA WithAccountsAgrees ==
    ASSUME NEW c \in Channels, Agree(c), NEW a \in Known(c.authorizations), NEW accounts \in SUBSET Accounts
    PROVE  LET new == WithAccounts(c, a, accounts) IN
           /\ new \in Channels /\ Agree(new) /\ Known(new.authorizations) = Known(c.authorizations)
           /\ \A b \in Known(c.authorizations) : new.authorizations[b].revision = c.authorizations[b].revision
           /\ \A x \in Accounts : c.owner[x] # None /\ new.owner[x] \notin {None, c.owner[x]}
                                  => new.owner[x] = a /\ x \in Conflicts(c, a, accounts)
<1> DEFINE conflicts == Conflicts(c, a, accounts)
           auths == [b \in AuthorizationIds |->
                        IF b = a THEN [c.authorizations[a] EXCEPT !.accounts = accounts, !.pending = FALSE]
                        ELSE IF c.authorizations[b] = None THEN None
                        ELSE [c.authorizations[b] EXCEPT !.accounts = @ \ conflicts]]
           new == WithAccounts(c, a, accounts)
<1>1. /\ a \in AuthorizationIds
      /\ \A b \in Known(c.authorizations) : c.authorizations[b] \in Authorizations /\ b \in AuthorizationIds
  BY KnownRecord
<1>2. ASSUME NEW b \in Known(c.authorizations)
      PROVE  /\ auths[b] \in Authorizations /\ auths[b].revision = c.authorizations[b].revision
             /\ b = a => auths[b].accounts = accounts
             /\ b # a => auths[b].accounts = c.authorizations[b].accounts \ conflicts
  BY <1>1 DEF Authorizations, Known
<1>3. \A b \in AuthorizationIds \ Known(c.authorizations) : auths[b] = None
  BY DEF Known
<1>4. auths \in [AuthorizationIds -> Authorizations \cup {None}]
  BY <1>2, <1>3
<1>5. new = Reindexed(c, auths)
  BY DEF WithAccounts
<1> HIDE DEF auths
<1>6. Known(auths) = Known(c.authorizations)
  BY <1>1, <1>2, <1>3, AbsenceAssumption DEF Known
<1>7. \A x \in Accounts, b \in Known(c.authorizations) :
         x \in c.authorizations[b].accounts => c.owner[x] = b /\ b # None
  BY <1>1, NoneAssumption DEF Agree, Holders, AuthorizationIds
<1>8. ASSUME NEW x \in Accounts, NEW b \in Holders(auths, x)
      PROVE  /\ b \in Known(c.authorizations)
             /\ x \in accounts => b = a
             /\ x \notin accounts => x \in c.authorizations[b].accounts \/ b = a
             /\ b # a => x \in c.authorizations[b].accounts \ conflicts
             /\ b = a => x \in accounts
  <2>1. b \in Known(c.authorizations) /\ x \in auths[b].accounts
    BY <1>6 DEF Holders
  <2>2. b # a => x \in c.authorizations[b].accounts \ conflicts /\ c.owner[x] = b
    BY <1>2, <1>7, <2>1
  <2>3. b # a /\ x \in accounts => x \in conflicts
    BY <1>7, <2>1, <2>2 DEF Conflicts
  <2> QED BY <1>2, <2>1, <2>2, <2>3
<1>9. \A x \in Accounts : \A b, d \in Holders(auths, x) : b = d
  <2> SUFFICES ASSUME NEW x \in Accounts, NEW b \in Holders(auths, x), NEW d \in Holders(auths, x)
               PROVE  b = d
    OBVIOUS
  <2>1. CASE x \in accounts
    BY <1>8, <2>1
  <2>2. CASE x \notin accounts
    <3>1. b # a /\ d # a /\ x \in c.authorizations[b].accounts /\ x \in c.authorizations[d].accounts
          /\ b \in Known(c.authorizations) /\ d \in Known(c.authorizations)
      BY <1>8, <2>2
    <3> QED BY <1>7, <3>1
  <2> QED BY <2>1, <2>2
<1>10. new \in Channels /\ Agree(new) /\ new.authorizations = auths
  BY <1>4, <1>5, <1>9, ReindexedAgrees
<1> HIDE DEF new
<1>11. ASSUME NEW x \in Accounts, c.owner[x] # None, new.owner[x] \notin {None, c.owner[x]}
       PROVE  new.owner[x] = a /\ x \in conflicts
  <2>1. new.owner[x] \in Holders(auths, x)
    BY <1>10, <1>11 DEF Agree
  <2>2. new.owner[x] = a /\ x \in accounts
    BY <1>7, <1>8, <1>11, <2>1
  <2>3. x \in conflicts
    BY <1>11, <2>2 DEF Conflicts
  <2> QED BY <2>2, <2>3
<1> QED BY <1>2, <1>6, <1>10, <1>11 DEF new

-----------------------------------------------------------------------------
(* What the steps have in common                                           *)

LEMMA Ids ==
    /\ AuthorizationIds \subseteq Runs /\ None \notin Runs
    /\ \A r \in Runs : r \in AuthorizationIds <=> Command[r] = "authorize"
BY NoneAssumption DEF AuthorizationIds

LEMMA Parts ==
    TypeOK => /\ channel \in Channels
              /\ credentials \in [AuthorizationIds -> [Tokens -> Credentials \cup {None}]]
              /\ refreshLock \in [AuthorizationIds -> Runs \cup {None}] /\ channelLock \in Runs \cup {None}
              /\ run \in [Runs -> RunRecord]
              /\ issued \in [AuthorizationIds -> 0..MaxTokens]
              /\ valid \in [AuthorizationIds -> 0..MaxTokens]
              /\ interrupted \subseteq AuthorizationIds /\ inflight \subseteq Requests
BY DEF TypeOK, RunRecord

LEMMA RevisionType ==
    ASSUME TypeOK, NEW a \in Known(Auths)
    PROVE  /\ a \in AuthorizationIds /\ Auths[a] \in Authorizations
           /\ Auths[a].revision \in Tokens /\ Auths[a].revision \in Nat
<1>1. Auths[a] \in Authorizations /\ a \in AuthorizationIds
  BY Parts, KnownRecord DEF Auths
<1> QED BY <1>1, BoundAssumption DEF Authorizations, Tokens

(* Who refreshes an authorization holds its refresh lock: there is one.    *)
LEMMA OneRefresh ==
    ASSUME \A r \in Runs : RunInv(r), NEW r \in Runs, NEW s \in Runs,
           HoldsRefresh(r), HoldsRefresh(s), run[r].id = run[s].id
    PROVE  r = s
BY DEF RunInv, RunLocks

LEMMA RefreshingHolds == ASSUME NEW r \in Runs, Refreshing(r) PROVE HoldsRefresh(r)
BY DEF Refreshing, HoldsRefresh

(* The end of a run gives its locks back and asks nothing more of it.      *)
LEMMA EndOfRun ==
    ASSUME TypeOK, NEW r \in Runs, End(r)
    PROVE  /\ run' \in [Runs -> RunRecord] /\ run'[r] = [Fresh EXCEPT !.pc = "done"]
           /\ \A s \in Runs \ {r} : run'[s] = run[s]
           /\ refreshLock' \in [AuthorizationIds -> Runs \cup {None}]
           /\ channelLock' \in Runs \cup {None}
           /\ \A a \in AuthorizationIds :
                 refreshLock'[a] = refreshLock[a] \/ (refreshLock[a] = r /\ refreshLock'[a] = None)
           /\ channelLock' = channelLock \/ (channelLock = r /\ channelLock' = None)
           /\ run'[r].pc = "done" /\ RunInv(r)' /\ ~Refreshing(r)'
<1>1. Fresh \in RunRecord /\ [Fresh EXCEPT !.pc = "done"] \in RunRecord
      /\ [Fresh EXCEPT !.pc = "done"].pc = "done"
  BY DEF Fresh, RunRecord, Pcs
<1>2. /\ run' \in [Runs -> RunRecord] /\ run'[r] = [Fresh EXCEPT !.pc = "done"]
      /\ \A s \in Runs \ {r} : run'[s] = run[s]
  BY <1>1, Parts DEF End
<1>3. /\ refreshLock' \in [AuthorizationIds -> Runs \cup {None}]
      /\ channelLock' \in Runs \cup {None}
      /\ \A a \in AuthorizationIds :
            refreshLock'[a] = refreshLock[a] \/ (refreshLock[a] = r /\ refreshLock'[a] = None)
      /\ channelLock' = channelLock \/ (channelLock = r /\ channelLock' = None)
  BY Parts DEF End, Released
<1>4. run'[r].pc = "done"
  BY <1>1, <1>2
<1>5. RunInv(r)' /\ ~Refreshing(r)'
  BY <1>4 DEF RunInv, RunLocks, RunKnows, RunFounds, RunRefreshes, HoldsRefresh, Refreshing, Founding
<1> QED BY <1>2, <1>3, <1>4, <1>5

(* A step of one run that leaves the state file alone, and the server too  *)
(* but for a new authorization: the other runs keep what they know, if the *)
(* credentials they count on stay.                                         *)
QuietFor(r) ==
    /\ channel' = channel
    /\ \A b \in AuthorizationIds :
          b \in Known(Auths) \/ b # r => issued'[b] = issued[b] /\ valid'[b] = valid[b]
    /\ \A s \in Runs \ {r} : run'[s] = run[s]
    /\ \A a \in AuthorizationIds : refreshLock'[a] = refreshLock[a] \/ refreshLock[a] \in {r, None}
    /\ channelLock' = channelLock \/ channelLock \in {r, None}
    /\ interrupted \subseteq interrupted'
    /\ \A b \in Known(Auths) : Active(b)' = Active(b)
    /\ \A s \in Runs \ {r} :
          Founding(s) \/ Refreshing(s) => credentials'[run[s].id] = credentials[run[s].id]

LEMMA QuietKeepsOthers ==
    ASSUME AuthInv, NEW r \in Runs, QuietFor(r), NEW s \in Runs \ {r} PROVE RunInv(s)'
<1>1. RunInv(s) /\ run'[s] = run[s] /\ s # None /\ Auths' = Auths /\ TypeOK
  BY Ids DEF AuthInv, QuietFor, Auths
<1>2. HoldsRefresh(s)' = HoldsRefresh(s) /\ Founding(s)' = Founding(s) /\ Refreshing(s)' = Refreshing(s)
  BY <1>1 DEF HoldsRefresh, Founding, Refreshing
<1>3. /\ HoldsRefresh(s) => run[s].id \in AuthorizationIds /\ run[s].id \in Known(Auths)
      /\ Founding(s) => s \in AuthorizationIds
      /\ Refreshing(s) => HoldsRefresh(s)
  BY <1>1, Ids DEF RunInv, RunKnows, Known, Founding, Refreshing, HoldsRefresh
<1>4. RunLocks(s)'
  BY <1>1, <1>2, <1>3 DEF RunInv, RunLocks, QuietFor
<1>5. RunKnows(s)'
  BY <1>1, <1>2 DEF RunInv, RunKnows
<1>6. RunFounds(s)'
  BY <1>1, <1>2, <1>3 DEF RunInv, RunFounds, QuietFor
<1>7. RunRefreshes(s)'
  BY <1>1, <1>2, <1>3, ZenonT(60) DEF RunInv, RunRefreshes, QuietFor
<1> QED BY <1>4, <1>5, <1>6, <1>7 DEF RunInv

LEMMA QuietKeeps ==
    ASSUME AuthInv, NEW r \in Runs, QuietFor(r), TypeOK', RunInv(r)',
           Refreshing(r) => (Refreshing(r)' /\ run'[r].id = run[r].id) \/ run[r].id \in interrupted',
           inflight' = inflight \/ AskedOnce',
           \A q \in inflight' :
              \/ Asked(q)'
              \/ q \in inflight /\ (q.run = r => /\ run'[r].pc \notin {"idle", "lock", "decide", "wait"}
                                                 /\ run[r].pc = "wait" => run[r].id \in interrupted')
    PROVE  AuthInv'
<1>1. \A s \in Runs : RunInv(s)'
  BY QuietKeepsOthers
<1>2. Agree(channel)' /\ Auths' = Auths
  BY DEF AuthInv, QuietFor, Auths
<1>3. ASSUME NEW q \in inflight' PROVE Asked(q)'
  <2> SUFFICES ASSUME q \in inflight,
                      q.run = r => /\ run'[r].pc \notin {"idle", "lock", "decide", "wait"}
                                   /\ run[r].pc = "wait" => run[r].id \in interrupted'
               PROVE  Asked(q)'
    OBVIOUS
  <2>1. Asked(q) /\ q.run \in Runs /\ q.id \in Known(Auths)
    BY Parts DEF AuthInv, Asked, Requests
  <2>2. /\ Active(q.id)' = Active(q.id) /\ valid'[q.id] = valid[q.id]
        /\ interrupted \subseteq interrupted'
    BY <2>1 DEF QuietFor, Known
  <2>3. CASE q.run # r
    <3>1. run'[q.run] = run[q.run]
      BY <2>1, <2>3 DEF QuietFor
    <3> QED BY <1>2, <2>1, <2>2, <3>1 DEF Asked
  <2>4. CASE q.run = r
    <3>1. run'[q.run].pc \notin {"idle", "lock", "decide", "wait"}
      BY <2>4
    <3>2. q.id \in interrupted'
      BY <2>1, <2>2, <2>4 DEF Asked
    <3> QED BY <1>2, <2>1, <3>1, <3>2 DEF Asked
  <2> QED BY <2>3, <2>4
<1>4. ASSUME NEW a \in Known(Auths) PROVE Stored(a)'
  <2>1. Stored(a) /\ Active(a)' = Active(a)
    BY DEF AuthInv, QuietFor
  <2>2. \A s \in Runs \ {r} : Refreshing(s)' = Refreshing(s) /\ run'[s].id = run[s].id
    BY DEF QuietFor, Refreshing
  <2>3. issued'[a] = issued[a] /\ valid'[a] = valid[a] /\ interrupted \subseteq interrupted'
    BY DEF QuietFor, Known
  <2>4. ASSUME a \notin interrupted', \A s \in Runs : Refreshing(s)' => run'[s].id # a
        PROVE  \A s \in Runs : Refreshing(s) => run[s].id # a
    BY <2>2, <2>4
  <2> QED BY <1>2, <2>1, <2>3, <2>4 DEF Stored
<1>5. AskedOnce'
  BY DEF AuthInv, AskedOnce
<1> QED BY <1>1, <1>2, <1>3, <1>4, <1>5 DEF AuthInv

-----------------------------------------------------------------------------
(* The steps of a run that leave the state file and the server alone       *)

(* A run that goes on with its record changed and all else as it was.      *)
LEMMA RunMoves ==
    ASSUME AuthInv, NEW r \in Runs, NEW new \in RunRecord, run' = [run EXCEPT ![r] = new],
           refreshLock' \in [AuthorizationIds -> Runs \cup {None}], channelLock' \in Runs \cup {None},
           \A a \in AuthorizationIds : refreshLock'[a] = refreshLock[a] \/ refreshLock[a] \in {r, None},
           channelLock' = channelLock \/ channelLock \in {r, None},
           UNCHANGED <<channel, credentials, issued, valid, expiring, interrupted>>
    PROVE  QuietFor(r) /\ run'[r] = new /\ (inflight' \subseteq Requests => TypeOK')
<1>1. run' \in [Runs -> RunRecord] /\ run'[r] = new /\ \A s \in Runs \ {r} : run'[s] = run[s]
  BY Parts DEF AuthInv
<1>2. QuietFor(r)
  BY <1>1 DEF QuietFor, Active
<1>3. inflight' \subseteq Requests => TypeOK'
  BY <1>1 DEF AuthInv, TypeOK, RunRecord
<1> QED BY <1>1, <1>2, <1>3

LEMMA LockKeeps == ASSUME AuthInv, NEW r \in Runs, Lock(r) PROVE AuthInv'
<1> DEFINE a == run[r].id  new == [run[r] EXCEPT !.pc = "decide"]
<1>1. run[r] \in RunRecord /\ RunInv(r) /\ TypeOK
  BY Parts DEF AuthInv
<1>2. /\ run[r].pc = "lock" /\ Command[r] # "authorize" /\ a \in Known(Auths)
      /\ a \in AuthorizationIds
  BY <1>1 DEF Lock, RunInv, RunKnows, Known
<1>3. new \in RunRecord /\ new.pc = "decide" /\ new.id = a
  BY <1>1 DEF RunRecord, Pcs
<1>4. run' = [run EXCEPT ![r] = new] /\ refreshLock' = [refreshLock EXCEPT ![a] = r] /\ refreshLock[a] = None
  BY DEF Lock
<1> HIDE DEF new
<1>5. QuietFor(r) /\ run'[r] = new /\ TypeOK' /\ inflight' = inflight
  <2>1. refreshLock' \in [AuthorizationIds -> Runs \cup {None}]
    BY <1>1, <1>4, Parts
  <2>2. \A b \in AuthorizationIds : refreshLock'[b] = refreshLock[b] \/ refreshLock[b] \in {r, None}
    BY <1>1, <1>4, Parts
  <2>3. UNCHANGED <<channel, credentials, channelLock, issued, valid, inflight, expiring, interrupted>>
    BY DEF Lock, server
  <2> QED BY <1>1, <1>3, <1>4, <2>1, <2>2, <2>3, RunMoves, Parts
<1>6. refreshLock'[a] = r /\ Auths' = Auths
  BY <1>1, <1>2, <1>4, <1>5, Parts DEF QuietFor, Auths
<1>7. RunInv(r)'
  BY <1>1, <1>2, <1>3, <1>5, <1>6 DEF RunInv, RunLocks, RunKnows, RunFounds, RunRefreshes, HoldsRefresh,
     Founding, Refreshing
<1>8. \A q \in inflight : q.run # r
  BY <1>2 DEF AuthInv, Asked
<1>9. ~Refreshing(r)
  BY <1>2 DEF Refreshing
<1> QED BY <1>5, <1>7, <1>8, <1>9, QuietKeeps

LEMMA DiscoverKeeps == ASSUME AuthInv, NEW r \in Runs, Discover(r) PROVE AuthInv'
<1>1. PICK accounts \in SUBSET Accounts : run' = [run EXCEPT ![r].pc = "record", ![r].accounts = accounts]
  BY DEF Discover
<1> DEFINE new == [run[r] EXCEPT !.pc = "record", !.accounts = accounts]
<1>2. run[r] \in RunRecord /\ RunInv(r) /\ TypeOK /\ run[r].pc = "discover"
  BY Parts DEF AuthInv, Discover
<1>3. new \in RunRecord /\ new.pc = "record" /\ new.id = run[r].id
  BY <1>2 DEF RunRecord, Pcs
<1>4. run' = [run EXCEPT ![r] = new]
  BY <1>1, <1>2, Parts
<1> HIDE DEF new
<1>5. QuietFor(r) /\ run'[r] = new /\ TypeOK' /\ inflight' = inflight
  <2>1. UNCHANGED <<channel, credentials, refreshLock, channelLock, issued, valid, inflight, expiring,
                    interrupted>>
    BY DEF Discover, server
  <2> QED BY <1>2, <1>3, <1>4, <2>1, RunMoves, Parts
<1>6. RunInv(r)'
  BY <1>2, <1>3, <1>5 DEF RunInv, RunLocks, RunKnows, RunFounds, RunRefreshes, HoldsRefresh, Founding,
     Refreshing, QuietFor, Auths
<1> QED BY <1>2, <1>3, <1>5, <1>6, QuietKeeps DEF Refreshing

LEMMA LoadKeeps == ASSUME AuthInv, NEW r \in Runs, Load(r) PROVE AuthInv'
<1> DEFINE pc == IF run[r].pc = "activate" THEN "activating" ELSE "recording"
           new == [run[r] EXCEPT !.pc = pc, !.file = channel]
<1>1. run[r] \in RunRecord /\ RunInv(r) /\ TypeOK /\ run[r].pc \in {"activate", "record"}
  BY Parts DEF AuthInv, Load
<1>2. /\ new \in RunRecord /\ new.pc = pc /\ new.file = channel /\ new.id = run[r].id
      /\ new.revision = run[r].revision /\ new.token = run[r].token
  <2>1. pc \in Pcs
    BY DEF Pcs
  <2>2. channel \in Channels
    BY <1>1, Parts
  <2> HIDE DEF pc
  <2> QED BY ONLY <1>1, <2>1, <2>2 DEF RunRecord
<1>3. run' = [run EXCEPT ![r] = new]
  BY <1>1, Parts DEF Load
<1> HIDE DEF new
<1>4. QuietFor(r) /\ run'[r] = new /\ TypeOK' /\ inflight' = inflight /\ channelLock' = r
  <2>1. /\ UNCHANGED <<channel, credentials, refreshLock, issued, valid, inflight, expiring, interrupted>>
        /\ channelLock = None /\ channelLock' = r
    BY DEF Load, server
  <2> QED BY <1>1, <1>2, <1>3, <2>1, RunMoves, Parts
<1>5. UNCHANGED <<channel, credentials, refreshLock, issued, valid, interrupted>>
  BY DEF Load, server
<1>6. /\ HoldsRefresh(r)' = HoldsRefresh(r) /\ Founding(r)' = Founding(r) /\ Refreshing(r)' = Refreshing(r)
  BY <1>1, <1>2, <1>4 DEF HoldsRefresh, Founding, Refreshing
<1>7. RunInv(r)'
  <2>1. RunLocks(r)'
    BY <1>1, <1>2, <1>4, <1>5, <1>6 DEF RunInv, RunLocks
  <2>2. RunKnows(r)'
    BY <1>1, <1>2, <1>4, <1>5, <1>6 DEF RunInv, RunKnows, Auths
  <2>3. RunFounds(r)'
    BY <1>1, <1>2, <1>4, <1>5, <1>6 DEF RunInv, RunFounds, Auths
  <2>4. RunRefreshes(r)'
    BY <1>1, <1>2, <1>4, <1>5, <1>6 DEF RunInv, RunRefreshes, Auths
  <2> QED BY <2>1, <2>2, <2>3, <2>4 DEF RunInv
<1> QED BY <1>1, <1>2, <1>4, <1>6, <1>7, QuietKeeps

LEMMA StopKeeps == ASSUME AuthInv, NEW r \in Runs, Stop(r) PROVE AuthInv'
<1>1. TypeOK /\ RunInv(r) /\ run[r] \in RunRecord
  BY Parts DEF AuthInv
<1>2. UNCHANGED <<channel, credentials, issued, valid, inflight, expiring>>
  BY DEF Stop, server
<1>3. Refreshing(r) => run[r].id \in AuthorizationIds
  BY <1>1, RefreshingHolds DEF RunInv, RunKnows, Known
<1>4. interrupted \subseteq interrupted' /\ interrupted' \subseteq AuthorizationIds
      /\ (Refreshing(r) => run[r].id \in interrupted')
  BY <1>1, <1>3, Parts DEF Stop, Interrupt
<1>5. End(r)
  BY DEF Stop
<1>6. TypeOK'
  BY <1>1, <1>2, <1>4, <1>5, EndOfRun DEF TypeOK, RunRecord
<1>7. QuietFor(r)
  BY <1>1, <1>2, <1>4, <1>5, EndOfRun DEF QuietFor, Active
<1>8. run'[r].pc = "done" /\ RunInv(r)'
  BY <1>1, <1>5, EndOfRun
<1>9. \A q \in inflight : q.run = r /\ run[r].pc = "wait" => Refreshing(r)
  BY DEF AuthInv, Asked, Refreshing
<1> QED BY <1>2, <1>4, <1>6, <1>7, <1>8, <1>9, QuietKeeps

(* No refresh is under way for an authorization whose lock a run holds     *)
(* that does not refresh itself.                                           *)
LEMMA NobodyElseRefreshes ==
    ASSUME AuthInv, NEW r \in Runs, HoldsRefresh(r), ~Refreshing(r)
    PROVE  \A s \in Runs : Refreshing(s) => run[s].id # run[r].id
BY RefreshingHolds, OneRefresh DEF AuthInv

(* A refresh asks with the token in use, which is the one the server takes *)
(* unless a refresh was cut off before.                                    *)
LEMMA TokenInUse ==
    ASSUME AuthInv, NEW r \in Runs, run[r].pc = "decide"
    PROVE  LET a == run[r].id IN
           /\ Command[r] # "authorize" /\ a \in Known(Auths) /\ Active(a) \in Credentials
           /\ a \notin interrupted => Active(a).refresh = valid[a]
           /\ HoldsRefresh(r) /\ ~Refreshing(r)
<1> DEFINE a == run[r].id
<1>1. RunInv(r) /\ TypeOK
  BY DEF AuthInv
<1>2. Command[r] # "authorize" /\ HoldsRefresh(r) /\ ~Refreshing(r)
  BY <1>1 DEF RunInv, RunKnows, HoldsRefresh, Refreshing
<1>3. a \in Known(Auths)
  BY <1>1, <1>2 DEF RunInv, RunKnows
<1>4. Stored(a) /\ \A s \in Runs : Refreshing(s) => run[s].id # a
  BY <1>2, <1>3, NobodyElseRefreshes DEF AuthInv
<1>5. Active(a) \in Credentials \cup {None}
  BY <1>1, <1>3, RevisionType, Parts DEF Active, Auths
<1> QED BY <1>2, <1>3, <1>4, <1>5 DEF Stored

(* A run that has its lease goes on to discover accounts, or ends.         *)
LEMMA LeaseOfRun ==
    ASSUME TypeOK, NEW r \in Runs, Lease(r), run[r].id \in AuthorizationIds
    PROVE  /\ \E new \in RunRecord : /\ run' = [run EXCEPT ![r] = new] /\ new.pc \in {"discover", "done"}
                                     /\ new.pc = "discover" => new.id = run[r].id
           /\ refreshLock' \in [AuthorizationIds -> Runs \cup {None}]
           /\ \A a \in AuthorizationIds :
                 refreshLock'[a] = refreshLock[a] \/ (refreshLock[a] = r /\ refreshLock'[a] = None)
<1> DEFINE going == [Fresh EXCEPT !.pc = "discover", !.id = run[r].id]
           ended == [Fresh EXCEPT !.pc = "done"]
           new == IF Command[r] = "sync" THEN going ELSE ended
<1>1. /\ going \in RunRecord /\ going.pc = "discover" /\ going.id = run[r].id
      /\ ended \in RunRecord /\ ended.pc = "done"
  BY DEF Fresh, RunRecord, Pcs
<1>2. run' = [run EXCEPT ![r] = new]
  BY DEF Lease
<1>3. /\ refreshLock' \in [AuthorizationIds -> Runs \cup {None}]
      /\ \A a \in AuthorizationIds :
            refreshLock'[a] = refreshLock[a] \/ (refreshLock[a] = r /\ refreshLock'[a] = None)
  BY Parts DEF Lease, Released
<1>4. new \in RunRecord /\ new.pc \in {"discover", "done"} /\ (new.pc = "discover" => new.id = run[r].id)
  BY <1>1
<1> HIDE DEF new
<1> QED BY <1>2, <1>3, <1>4

LEMMA AtRest ==
    ASSUME NEW r \in Runs, run'[r].pc \in {"discover", "done"},
           run'[r].pc = "discover" => run'[r].id \in Known(Auths')
    PROVE  RunInv(r)' /\ ~Refreshing(r)' /\ ~HoldsRefresh(r)'
BY DEF RunInv, RunLocks, RunKnows, RunFounds, RunRefreshes, HoldsRefresh, Founding, Refreshing, Auths

LEMMA DecideKeeps == ASSUME AuthInv, NEW r \in Runs, Decide(r) PROVE AuthInv'
<1> DEFINE a == run[r].id
           ask == [run |-> r, id |-> a, refresh |-> Active(a).refresh]
           new == [run[r] EXCEPT !.pc = "wait", !.revision = Auths[a].revision]
<1>1. /\ TypeOK /\ RunInv(r) /\ run[r] \in RunRecord /\ run[r].pc = "decide"
      /\ UNCHANGED <<channel, credentials, issued, valid, expiring, interrupted>>
  BY Parts DEF AuthInv, Decide
<1>2. /\ Command[r] # "authorize" /\ a \in Known(Auths) /\ a \in AuthorizationIds
      /\ HoldsRefresh(r) /\ ~Refreshing(r)
      /\ Active(a) \in Credentials /\ (a \notin interrupted => Active(a).refresh = valid[a])
  BY <1>1, TokenInUse DEF Known
<1>3. \A q \in inflight : q.run # r
  BY <1>1 DEF AuthInv, Asked
<1>4. CASE End(r) /\ UNCHANGED inflight
  <2>1. QuietFor(r) /\ TypeOK'
    <3>1. TypeOK'
      BY <1>1, <1>4, EndOfRun DEF TypeOK, RunRecord
    <3>2. QuietFor(r)
      BY <1>1, <1>4, EndOfRun DEF QuietFor, Active
    <3> QED BY <3>1, <3>2
  <2> QED BY <1>1, <1>2, <1>3, <1>4, <2>1, EndOfRun, QuietKeeps
<1>5. CASE channelLock' = channelLock /\ Lease(r) /\ UNCHANGED inflight
  <2>1. PICK rest \in RunRecord : /\ run' = [run EXCEPT ![r] = rest] /\ rest.pc \in {"discover", "done"}
                                  /\ rest.pc = "discover" => rest.id = a
    BY <1>1, <1>2, <1>5, LeaseOfRun
  <2>2. QuietFor(r) /\ run'[r] = rest /\ TypeOK'
    <3>1. /\ refreshLock' \in [AuthorizationIds -> Runs \cup {None}]
          /\ \A b \in AuthorizationIds : refreshLock'[b] = refreshLock[b] \/ refreshLock[b] \in {r, None}
      BY <1>1, <1>2, <1>5, LeaseOfRun
    <3> QED BY <1>1, <1>5, <2>1, <3>1, RunMoves, Parts
  <2>3. RunInv(r)'
    BY <1>1, <1>2, <2>1, <2>2, AtRest DEF Auths
  <2> QED BY <1>2, <1>3, <1>5, <2>2, <2>3, QuietKeeps
<1>6. CASE /\ channelLock' = channelLock /\ inflight' = inflight \cup {ask}
           /\ run' = [run EXCEPT ![r].pc = "wait", ![r].revision = Auths[a].revision]
           /\ UNCHANGED refreshLock
  <2>1. /\ new \in RunRecord /\ new.pc = "wait" /\ new.id = a /\ new.revision = Auths[a].revision
    BY <1>1, <1>2, RevisionType DEF RunRecord, Pcs
  <2>2. run' = [run EXCEPT ![r] = new]
    BY <1>1, <1>6, Parts
  <2>3. PICK q \in Requests : q = ask
    BY <1>2 DEF Requests, Credentials
  <2>4. q.run = r /\ q.id = a /\ q.refresh = Active(a).refresh
    BY <2>3
  <2> HIDE DEF new, ask
  <2>5. QuietFor(r) /\ run'[r] = new /\ TypeOK'
    <3>1. inflight' \subseteq Requests
      BY <1>1, <1>6, <2>3, Parts
    <3> QED BY <1>1, <1>6, <2>1, <2>2, <3>1, RunMoves, Parts
  <2>6. RunInv(r)'
    BY <1>1, <1>2, <1>6, <2>1, <2>5 DEF RunInv, RunLocks, RunKnows, RunFounds, RunRefreshes, HoldsRefresh,
       Founding, Refreshing, Auths
  <2>7. (\A b \in Known(Auths) : Active(b)' = Active(b)) /\ Auths' = Auths
    BY <1>1 DEF Active, Auths
  <2>8. Asked(q)'
    BY <1>1, <1>2, <2>1, <2>4, <2>5, <2>7 DEF Asked
  <2>9. AskedOnce'
    BY <1>3, <1>6, <2>3, <2>4 DEF AuthInv, AskedOnce
  <2> QED BY <1>2, <1>3, <1>6, <2>3, <2>5, <2>6, <2>8, <2>9, QuietKeeps
<1> QED BY <1>4, <1>5, <1>6 DEF Decide, Active, Auths

(* The token of a run that stores it, and where: a free revision.          *)
LEMMA SlotOfRun ==
    ASSUME AuthInv, NEW r \in Runs, run[r].pc = "write"
    PROVE  LET a == run[r].id
               slot == run[r].revision + 1 IN
           /\ a \in AuthorizationIds /\ slot \in Tokens /\ run[r].token \in Credentials
           /\ a \in Known(Auths) => Auths[a].revision # slot
           /\ \A s \in Runs \ {r} : Founding(s) \/ Refreshing(s) => run[s].id # a
           /\ Command[r] = "authorize" => Founding(r) /\ ~Refreshing(r)
           /\ Command[r] # "authorize" => Refreshing(r) /\ ~Founding(r)
<1> DEFINE a == run[r].id  slot == run[r].revision + 1
<1>1. TypeOK /\ \A s \in Runs : RunInv(s)
  BY DEF AuthInv
<1>2. \A s \in Runs \ {r} : /\ Founding(s) => run[s].id = s /\ Auths[s] = None
                            /\ Refreshing(s) => HoldsRefresh(s) /\ run[s].id \in Known(Auths)
  BY <1>1, RefreshingHolds DEF RunInv, RunFounds, RunKnows
<1>3. CASE Command[r] = "authorize"
  <2>1. Founding(r) /\ ~Refreshing(r)
    BY <1>3 DEF Founding, Refreshing
  <2>2. a = r /\ run[r].revision = 0 /\ run[r].token = First /\ Auths[r] = None
    BY <1>1, <2>1 DEF RunInv, RunFounds
  <2>3. slot \in Tokens /\ First \in Credentials
    BY <2>2, BoundAssumption DEF Tokens, First, Credentials
  <2>4. a \in AuthorizationIds /\ a \notin Known(Auths)
    BY <1>3, <2>2, Ids DEF Known
  <2> QED BY <1>2, <1>3, <2>1, <2>2, <2>3, <2>4
<1>4. CASE Command[r] # "authorize"
  <2>1. Refreshing(r) /\ ~Founding(r) /\ HoldsRefresh(r)
    BY <1>4 DEF Founding, Refreshing, HoldsRefresh
  <2>2. /\ a \in Known(Auths) /\ run[r].revision = Auths[a].revision
        /\ run[r].revision + 1 <= issued[a] /\ run[r].token \in Credentials
    BY <1>1, <2>1 DEF RunInv, RunKnows, RunRefreshes
  <2>3. a \in AuthorizationIds /\ Auths[a].revision \in Nat /\ issued[a] \in 0..MaxTokens
    BY <1>1, <2>2, RevisionType, Parts
  <2>4. slot \in Tokens /\ slot # Auths[a].revision
    BY <2>2, <2>3, BoundAssumption DEF Tokens
  <2>5. \A s \in Runs \ {r} : HoldsRefresh(s) => run[s].id # a
    BY <1>1, <2>1, OneRefresh
  <2>6. \A s \in Runs \ {r} : Founding(s) => run[s].id # a
    BY <1>2, <2>2 DEF Known
  <2> QED BY <1>2, <1>4, <2>1, <2>2, <2>3, <2>4, <2>5, <2>6
<1> QED BY <1>3, <1>4

(* What else is stored stays, and the token in use with it.                *)
LEMMA StoreElsewhere ==
    ASSUME AuthInv, NEW r \in Runs, run[r].pc = "write", channel' = channel,
           NEW c \in Credentials \cup {None},
           credentials' = [credentials EXCEPT ![run[r].id][run[r].revision + 1] = c]
    PROVE  /\ credentials' \in [AuthorizationIds -> [Tokens -> Credentials \cup {None}]]
           /\ credentials'[run[r].id][run[r].revision + 1] = c
           /\ \A b \in Known(Auths) : Active(b)' = Active(b)
           /\ \A s \in Runs \ {r} :
                 Founding(s) \/ Refreshing(s) => credentials'[run[s].id] = credentials[run[s].id]
<1> DEFINE a == run[r].id  slot == run[r].revision + 1
<1>1. /\ a \in AuthorizationIds /\ slot \in Tokens /\ (a \in Known(Auths) => Auths[a].revision # slot)
      /\ \A s \in Runs \ {r} : Founding(s) \/ Refreshing(s) => run[s].id # a
  BY SlotOfRun
<1>2. credentials \in [AuthorizationIds -> [Tokens -> Credentials \cup {None}]] /\ TypeOK
  BY Parts DEF AuthInv
<1>3. /\ credentials' \in [AuthorizationIds -> [Tokens -> Credentials \cup {None}]]
      /\ credentials'[a][slot] = c
      /\ \A b \in AuthorizationIds : b # a => credentials'[b] = credentials[b]
      /\ \A n \in Tokens : n # slot => credentials'[a][n] = credentials[a][n]
  BY <1>1, <1>2
<1>4. \A b \in Known(Auths) : credentials'[b][Auths[b].revision] = credentials[b][Auths[b].revision]
  BY <1>1, <1>2, <1>3, RevisionType
<1>5. \A s \in Runs \ {r} : Founding(s) \/ Refreshing(s) => run[s].id \in AuthorizationIds
  BY Ids, RefreshingHolds DEF AuthInv, RunInv, RunKnows, RunFounds, Founding, Known
<1> QED BY <1>1, <1>3, <1>4, <1>5 DEF Active, Auths

LEMMA WriteKeeps == ASSUME AuthInv, NEW r \in Runs, Write(r) PROVE AuthInv'
<1> DEFINE a == run[r].id  slot == run[r].revision + 1
           new == [run[r] EXCEPT !.pc = "activate"]
<1>1. /\ TypeOK /\ RunInv(r) /\ run[r] \in RunRecord /\ run[r].pc = "write"
      /\ UNCHANGED <<channel, issued, valid, inflight, expiring>>
  BY Parts DEF AuthInv, Write, server
<1>2. /\ a \in AuthorizationIds /\ slot \in Tokens /\ run[r].token \in Credentials
      /\ Command[r] = "authorize" => Founding(r) /\ ~Refreshing(r)
      /\ Command[r] # "authorize" => Refreshing(r) /\ ~Founding(r)
  BY <1>1, SlotOfRun
<1>3. \A q \in inflight : q.run = r => run[r].pc # "wait"
  BY <1>1
<1>4. CASE /\ credentials' = [credentials EXCEPT ![a][slot] = run[r].token]
           /\ run' = [run EXCEPT ![r].pc = "activate"]
           /\ UNCHANGED <<refreshLock, channelLock, interrupted>>
  <2>1. /\ new \in RunRecord /\ new.pc = "activate" /\ new.id = a /\ new.token = run[r].token
        /\ new.revision = run[r].revision
    BY <1>1 DEF RunRecord, Pcs
  <2>2. run' = [run EXCEPT ![r] = new]
    BY <1>1, <1>4, Parts
  <2> HIDE DEF new
  <2>3. run' \in [Runs -> RunRecord] /\ run'[r] = new /\ \A s \in Runs \ {r} : run'[s] = run[s]
    BY <1>1, <2>1, <2>2, Parts
  <2>4. /\ credentials' \in [AuthorizationIds -> [Tokens -> Credentials \cup {None}]]
        /\ credentials'[run[r].id][run[r].revision + 1] = run[r].token
        /\ \A b \in Known(Auths) : Active(b)' = Active(b)
        /\ \A s \in Runs \ {r} :
              Founding(s) \/ Refreshing(s) => credentials'[run[s].id] = credentials[run[s].id]
    BY <1>1, <1>2, <1>4, StoreElsewhere
  <2>5. TypeOK'
    BY <1>1, <1>4, <2>3, <2>4 DEF TypeOK, RunRecord
  <2>6. QuietFor(r)
    BY <1>1, <1>4, <2>3, <2>4 DEF QuietFor
  <2>7. Refreshing(r)' = Refreshing(r) /\ Founding(r)' = Founding(r) /\ HoldsRefresh(r)' = HoldsRefresh(r)
    BY <1>1, <2>1, <2>3 DEF Refreshing, Founding, HoldsRefresh
  <2>8. RunInv(r)'
    <3>1. RunLocks(r)' /\ RunKnows(r)'
      BY <1>1, <1>4, <2>1, <2>3, <2>7 DEF RunInv, RunLocks, RunKnows, Auths
    <3>2. RunFounds(r)'
      BY <1>1, <2>1, <2>3, <2>4, <2>7 DEF RunInv, RunFounds, Auths
    <3>3. RunRefreshes(r)'
      BY <1>1, <1>4, <2>1, <2>3, <2>4, <2>7 DEF RunInv, RunRefreshes, Auths
    <3> QED BY <3>1, <3>2, <3>3 DEF RunInv
  <2>9. \A q \in inflight : q.run = r => run'[r].pc \notin {"idle", "lock", "decide", "wait"}
    BY <2>1, <2>3
  <2> QED BY <1>1, <1>3, <2>1, <2>3, <2>5, <2>6, <2>7, <2>8, <2>9, QuietKeeps
<1>5. CASE /\ \E c \in {credentials[a][slot], None, run[r].token} :
                 credentials' = [credentials EXCEPT ![a][slot] = c]
           /\ End(r) /\ Interrupt(r)
  <2>1. PICK c \in Credentials \cup {None} : credentials' = [credentials EXCEPT ![a][slot] = c]
    <3>1. {credentials[a][slot], None, run[r].token} \subseteq Credentials \cup {None}
      BY <1>1, <1>2, Parts
    <3> QED BY <1>5, <3>1
  <2>2. /\ credentials' \in [AuthorizationIds -> [Tokens -> Credentials \cup {None}]]
        /\ \A b \in Known(Auths) : Active(b)' = Active(b)
        /\ \A s \in Runs \ {r} :
              Founding(s) \/ Refreshing(s) => credentials'[run[s].id] = credentials[run[s].id]
    BY <1>1, <2>1, StoreElsewhere
  <2>3. interrupted \subseteq interrupted' /\ interrupted' \subseteq AuthorizationIds
        /\ (Refreshing(r) => run[r].id \in interrupted')
    BY <1>1, <1>2, <1>5, Parts DEF Interrupt
  <2>4. TypeOK'
    BY <1>1, <1>5, <2>2, <2>3, EndOfRun DEF TypeOK, RunRecord
  <2>5. QuietFor(r)
    BY <1>1, <1>5, <2>2, <2>3, EndOfRun DEF QuietFor
  <2> QED BY <1>1, <1>3, <1>5, <2>3, <2>4, <2>5, EndOfRun, QuietKeeps
<1> QED BY <1>4, <1>5 DEF Write

LEMMA StartKeeps == ASSUME AuthInv, NEW r \in Runs, Start(r) PROVE AuthInv'
<1>1. /\ TypeOK /\ RunInv(r) /\ run[r] \in RunRecord /\ run[r].pc = "idle"
      /\ UNCHANGED <<channel, credentials, refreshLock, channelLock, inflight, expiring, interrupted>>
  BY Parts DEF AuthInv, Start
<1>2. (\A q \in inflight : q.run # r) /\ ~Refreshing(r) /\ Auths' = Auths
  BY <1>1 DEF AuthInv, Asked, Refreshing, Auths
<1>3. CASE Command[r] = "authorize"
  <2> DEFINE new == [run[r] EXCEPT !.pc = "write", !.id = r, !.token = First]
  <2>1. r \in AuthorizationIds /\ Auths[r] = None /\ r \notin Known(Auths)
    BY <1>1, <1>3, Ids DEF RunInv, RunKnows, Known
  <2>2. run' = [run EXCEPT ![r].pc = "write", ![r].id = r, ![r].token = First]
        /\ issued' = [issued EXCEPT ![r] = 1] /\ valid' = [valid EXCEPT ![r] = 1]
    BY <1>3 DEF Start, First
  <2>3. First \in Credentials
    BY BoundAssumption DEF First, Credentials, Tokens
  <2>4. /\ new \in RunRecord /\ new.pc = "write" /\ new.id = r /\ new.token = First
        /\ new.revision = run[r].revision
    BY <1>1, <2>1, <2>3, ZenonT(60) DEF RunRecord, Pcs
  <2>5. run' = [run EXCEPT ![r] = new]
    BY <1>1, <2>2, Parts
  <2> HIDE DEF new
  <2>6. run' \in [Runs -> RunRecord] /\ run'[r] = new /\ \A s \in Runs \ {r} : run'[s] = run[s]
    BY <1>1, <2>4, <2>5, Parts
  <2>7. /\ issued' \in [AuthorizationIds -> 0..MaxTokens] /\ valid' \in [AuthorizationIds -> 0..MaxTokens]
        /\ issued'[r] = 1 /\ valid'[r] = 1
        /\ \A b \in AuthorizationIds \ {r} : issued'[b] = issued[b] /\ valid'[b] = valid[b]
    BY <1>1, <2>1, <2>2, BoundAssumption, Parts
  <2>8. TypeOK'
    BY <1>1, <2>6, <2>7 DEF TypeOK, RunRecord
  <2>9. QuietFor(r)
    BY <1>1, <2>1, <2>6, <2>7 DEF QuietFor, Active
  <2>10. RunInv(r)'
    BY <1>1, <1>2, <1>3, <2>1, <2>4, <2>6, <2>7 DEF RunInv, RunLocks, RunKnows, RunFounds, RunRefreshes,
       HoldsRefresh, Founding, Refreshing
  <2> QED BY <1>1, <1>2, <2>8, <2>9, <2>10, QuietKeeps
<1>4. CASE Command[r] # "authorize"
  <2>1. /\ UNCHANGED <<issued, valid>>
        /\ \E a \in Known(Auths), v \in Advertisers \cup {None} :
              \/ run' = [run EXCEPT ![r].pc = "lock", ![r].id = a, ![r].advertiser = v,
                                    ![r].seen = Auths[a].revision]
              \/ run' = [run EXCEPT ![r].pc = "lock", ![r].id = a, ![r].seen = Auths[a].revision]
    <3>1. \A v \in Advertisers : \A a \in AuthorizationIds : ByAdvertiser(v, a) => a \in Known(Auths)
      BY DEF AuthInv, Agree, ByAdvertiser, Auths
    <3>2. \A a \in AuthorizationIds : ById(r, a) => a \in Known(Auths)
      BY DEF ById, Auths
    <3>3. CASE Command[r] = "ensure"
      BY <3>1, <3>3 DEF Start, Auths
    <3>4. CASE Command[r] # "ensure"
      BY <1>4, <3>2, <3>4 DEF Start, Auths
    <3> QED BY <3>3, <3>4
  <2>2. PICK a \in Known(Auths), v \in Advertisers \cup {None} :
              \/ run' = [run EXCEPT ![r].pc = "lock", ![r].id = a, ![r].advertiser = v,
                                    ![r].seen = Auths[a].revision]
              \/ run' = [run EXCEPT ![r].pc = "lock", ![r].id = a, ![r].seen = Auths[a].revision]
    BY <2>1
  <2>3. a \in AuthorizationIds /\ Auths[a].revision \in Tokens
    BY <1>1, RevisionType
  <2>4. PICK new \in RunRecord : run' = [run EXCEPT ![r] = new] /\ new.pc = "lock" /\ new.id = a
    <3> DEFINE one == [run[r] EXCEPT !.pc = "lock", !.id = a, !.advertiser = v, !.seen = Auths[a].revision]
               two == [run[r] EXCEPT !.pc = "lock", !.id = a, !.seen = Auths[a].revision]
    <3>1. one \in RunRecord /\ one.pc = "lock" /\ one.id = a
      BY <1>1, <2>3 DEF RunRecord, Pcs
    <3>2. two \in RunRecord /\ two.pc = "lock" /\ two.id = a
      BY <1>1, <2>3 DEF RunRecord, Pcs
    <3>3. run' = [run EXCEPT ![r] = one] \/ run' = [run EXCEPT ![r] = two]
      BY <1>1, <2>2, Parts
    <3> HIDE DEF one, two
    <3> QED BY <3>1, <3>2, <3>3
  <2>5. QuietFor(r) /\ run'[r] = new /\ TypeOK'
    BY <1>1, <2>1, <2>4, RunMoves, Parts
  <2>6. RunInv(r)'
    BY <1>2, <1>4, <2>4, <2>5 DEF RunInv, RunLocks, RunKnows, RunFounds, RunRefreshes, HoldsRefresh,
       Founding, Refreshing
  <2> QED BY <1>1, <1>2, <2>5, <2>6, QuietKeeps
<1> QED BY <1>3, <1>4

-----------------------------------------------------------------------------
(* The updates of the state file                                           *)

(* An update by one run, which holds the file's lock: nobody else's is     *)
(* under way, and who refreshes another authorization sees it unchanged.   *)
UpdateBy(r) ==
    /\ channelLock = r /\ run[r].pc \in {"activating", "recording"}
    /\ UNCHANGED <<credentials, issued, valid, inflight, expiring, interrupted>>
    /\ \A s \in Runs \ {r} : run'[s] = run[s]
    /\ \A a \in AuthorizationIds : refreshLock'[a] = refreshLock[a] \/ refreshLock[a] \in {r, None}
    /\ Known(Auths) \subseteq Known(Auths')
    /\ \A b \in Known(Auths') : b \in Known(Auths) \/ (b = r /\ b = run[r].id)
    /\ \A b \in Known(Auths) :
          Auths'[b].revision = Auths[b].revision \/ (b = run[r].id /\ HoldsRefresh(r))

LEMMA UpdateKeepsOthers ==
    ASSUME AuthInv, NEW r \in Runs, UpdateBy(r), NEW s \in Runs \ {r} PROVE RunInv(s)'
<1>1. RunInv(s) /\ run'[s] = run[s] /\ s # None /\ TypeOK
  BY Ids DEF AuthInv, UpdateBy
<1>2. HoldsRefresh(s)' = HoldsRefresh(s) /\ Founding(s)' = Founding(s) /\ Refreshing(s)' = Refreshing(s)
  BY <1>1 DEF HoldsRefresh, Founding, Refreshing
<1>3. /\ HoldsRefresh(s) => run[s].id \in AuthorizationIds /\ run[s].id \in Known(Auths)
      /\ Refreshing(s) => HoldsRefresh(s)
  BY <1>1 DEF RunInv, RunKnows, Known, Refreshing, HoldsRefresh
<1>4. RunLocks(s)'
  <2>1. run[s].pc \notin {"activating", "recording"}
    BY <1>1 DEF RunInv, RunLocks, UpdateBy
  <2> QED BY <1>1, <1>2, <1>3, <2>1 DEF RunInv, RunLocks, UpdateBy
<1>5. Auths[s] = None /\ Command[s] = "authorize" => Auths'[s] = None
  BY Ids DEF UpdateBy, Known
<1>6. RunKnows(s)'
  BY <1>1, <1>2, <1>5 DEF RunInv, RunKnows, UpdateBy
<1>7. RunFounds(s)'
  BY <1>1, <1>2, <1>5 DEF RunInv, RunFounds, UpdateBy, Founding
<1>8. RunRefreshes(s)'
  <2> SUFFICES ASSUME Refreshing(s) PROVE RunRefreshes(s)'
    BY <1>2 DEF RunRefreshes
  <2>1. HoldsRefresh(s) /\ run[s].id \in Known(Auths)
    BY <1>3
  <2>2. ~(run[s].id = run[r].id /\ HoldsRefresh(r))
    BY <2>1, OneRefresh DEF AuthInv
  <2>3. Auths'[run[s].id].revision = Auths[run[s].id].revision
    BY <2>1, <2>2 DEF UpdateBy
  <2> QED BY <1>1, <2>3 DEF RunInv, RunRefreshes, UpdateBy
<1> QED BY <1>4, <1>6, <1>7, <1>8 DEF RunInv

LEMMA UpdateKeeps ==
    ASSUME AuthInv, NEW r \in Runs, UpdateBy(r), TypeOK', Agree(channel)',
           run'[r].pc \in {"discover", "done"},
           run'[r].pc = "discover" => run'[r].id \in Known(Auths'),
           \A b \in Known(Auths') : b = run[r].id => Stored(b)'
    PROVE  AuthInv'
<1>1. RunInv(r)' /\ \A s \in Runs \ {r} : RunInv(s)'
  BY AtRest, UpdateKeepsOthers
<1>2. ASSUME NEW q \in inflight' PROVE Asked(q)'
  <2>1. q \in inflight /\ Asked(q) /\ q.run \in Runs
    BY Parts DEF AuthInv, UpdateBy, Requests
  <2>2. q.id \in Known(Auths) /\ q.id \in Known(Auths') /\ Command[q.run] # "authorize"
    BY <2>1 DEF Asked, UpdateBy
  <2>3. UNCHANGED <<credentials, valid, interrupted>>
    BY DEF UpdateBy
  <2>4. CASE q.run = r
    <3>1. run[r].pc # "wait" /\ run'[r].pc \in {"discover", "done"}
      BY DEF UpdateBy
    <3>2. q.id \in interrupted
      BY <2>1, <2>4, <3>1 DEF Asked
    <3> QED BY <2>2, <2>3, <2>4, <3>1, <3>2 DEF Asked
  <2>5. CASE q.run # r
    <3>1. run'[q.run] = run[q.run]
      BY <2>1, <2>5 DEF UpdateBy
    <3>2. ASSUME q.id \notin interrupted PROVE Active(q.id)' = Active(q.id)
      <4>1. run[q.run].pc = "wait" /\ run[q.run].id = q.id
        BY <2>1, <3>2 DEF Asked
      <4>2. HoldsRefresh(q.run)
        BY <2>2, <4>1 DEF HoldsRefresh
      <4>3. ~(q.id = run[r].id /\ HoldsRefresh(r))
        BY <2>1, <2>5, <4>1, <4>2, OneRefresh DEF AuthInv
      <4>4. Auths'[q.id].revision = Auths[q.id].revision
        BY <2>2, <4>3 DEF UpdateBy
      <4> QED BY <2>3, <4>4 DEF Active, Auths
    <3> QED BY <2>1, <2>2, <2>3, <3>1, <3>2 DEF Asked
  <2> QED BY <2>4, <2>5
<1>3. ASSUME NEW b \in Known(Auths'), b # run[r].id PROVE Stored(b)'
  <2>1. b \in Known(Auths) /\ Auths'[b].revision = Auths[b].revision
    BY <1>3 DEF UpdateBy
  <2>2. Active(b)' = Active(b) /\ Stored(b) /\ UNCHANGED <<issued, valid, interrupted>>
    BY <2>1 DEF AuthInv, UpdateBy, Active, Auths
  <2>3. \A s \in Runs \ {r} : Refreshing(s)' = Refreshing(s) /\ run'[s].id = run[s].id
    BY DEF UpdateBy, Refreshing
  <2>4. ASSUME \A s \in Runs : Refreshing(s)' => run'[s].id # b
        PROVE  \A s \in Runs : Refreshing(s) => run[s].id # b
    BY <1>3, <2>3, <2>4
  <2> QED BY <2>1, <2>2, <2>4 DEF Stored
<1>4. AskedOnce'
  BY DEF AuthInv, AskedOnce, UpdateBy
<1> QED BY <1>1, <1>2, <1>3, <1>4 DEF AuthInv

LEMMA ActivateKeeps == ASSUME AuthInv, NEW r \in Runs, Activate(r) PROVE AuthInv'
<1> DEFINE a == run[r].id
<1>1. /\ TypeOK /\ RunInv(r) /\ run[r] \in RunRecord /\ run[r].pc = "activating"
      /\ UNCHANGED <<credentials, issued, valid, inflight, expiring>>
  BY Parts DEF AuthInv, Activate, server
<1>2. channelLock = r /\ run[r].file = channel /\ channel \in Channels /\ Agree(channel)
  BY <1>1, Parts DEF AuthInv, RunInv, RunLocks
<1>3. \A q \in inflight : q.run = r => run[r].pc # "wait"
  BY <1>1
<1>4. a \in AuthorizationIds
  BY <1>1, Ids DEF RunInv, RunFounds, RunKnows, Founding, HoldsRefresh, Known
<1>5. CASE End(r) /\ Interrupt(r) /\ UNCHANGED channel
  <2>1. interrupted \subseteq interrupted' /\ interrupted' \subseteq AuthorizationIds
        /\ (Refreshing(r) => run[r].id \in interrupted')
    BY <1>1, <1>4, <1>5, Parts DEF Interrupt
  <2>2. TypeOK'
    BY <1>1, <1>5, <2>1, EndOfRun DEF TypeOK, RunRecord
  <2>3. QuietFor(r)
    BY <1>1, <1>5, <2>1, EndOfRun DEF QuietFor, Active
  <2> QED BY <1>1, <1>3, <1>5, <2>1, <2>2, <2>3, EndOfRun, QuietKeeps
<1>6. CASE /\ IF Command[r] = "authorize"
              THEN channel' = WithAuthorization(channel, a)
              ELSE /\ a \in Known(Auths) /\ Auths[a].revision = run[r].revision
                   /\ channel' = WithRevision(channel, a, run[r].revision + 1)
           /\ UNCHANGED interrupted
           /\ \/ End(r)
              \/ /\ channelLock' = None
                 /\ IF Command[r] = "authorize"
                    THEN /\ run' = [run EXCEPT ![r] = [Fresh EXCEPT !.pc = "discover", !.id = a]]
                         /\ UNCHANGED refreshLock
                    ELSE Lease(r)
  <2>1. /\ run' \in [Runs -> RunRecord] /\ (\A s \in Runs \ {r} : run'[s] = run[s])
        /\ run'[r].pc \in {"discover", "done"} /\ (run'[r].pc = "discover" => run'[r].id = a)
        /\ refreshLock' \in [AuthorizationIds -> Runs \cup {None}] /\ channelLock' \in Runs \cup {None}
        /\ \A b \in AuthorizationIds : refreshLock'[b] = refreshLock[b] \/ refreshLock[b] \in {r, None}
    <3>1. CASE End(r)
      BY <1>1, <3>1, EndOfRun
    <3>2. CASE /\ channelLock' = None /\ Command[r] = "authorize" /\ UNCHANGED refreshLock
               /\ run' = [run EXCEPT ![r] = [Fresh EXCEPT !.pc = "discover", !.id = a]]
      <4>1. [Fresh EXCEPT !.pc = "discover", !.id = a] \in RunRecord
        BY <1>4 DEF Fresh, RunRecord, Pcs
      <4>2. [Fresh EXCEPT !.pc = "discover", !.id = a].pc = "discover"
            /\ [Fresh EXCEPT !.pc = "discover", !.id = a].id = a
        BY DEF Fresh
      <4> QED BY <1>1, <3>2, <4>1, <4>2, Parts
    <3>3. CASE channelLock' = None /\ Lease(r)
      <4>1. PICK new \in RunRecord : /\ run' = [run EXCEPT ![r] = new] /\ new.pc \in {"discover", "done"}
                                     /\ new.pc = "discover" => new.id = a
        BY <1>1, <1>4, <3>3, LeaseOfRun
      <4>2. /\ refreshLock' \in [AuthorizationIds -> Runs \cup {None}]
            /\ \A b \in AuthorizationIds : refreshLock'[b] = refreshLock[b] \/ refreshLock[b] \in {r, None}
        BY <1>1, <1>4, <3>3, LeaseOfRun
      <4> QED BY <1>1, <3>3, <4>1, <4>2, Parts
    <3> QED BY <1>6, <3>1, <3>2, <3>3
  <2>2. CASE Command[r] = "authorize"
    <3>1. /\ a = r /\ Auths[r] = None /\ valid[r] = 1 /\ issued[r] = 1 /\ credentials[r][1] = First
          /\ channel' = WithAuthorization(channel, a)
      BY <1>1, <1>6, <2>2 DEF RunInv, RunFounds, Founding
    <3>2. /\ channel' \in Channels /\ Agree(channel') /\ Auths'[a].revision = 1 /\ Auths'[a] # None
          /\ \A b \in AuthorizationIds \ {a} : Auths'[b] = Auths[b]
      <4> DEFINE first == [revision |-> 1, pending |-> TRUE, accounts |-> {}]
      <4>1. /\ channel' \in Channels /\ Agree(channel') /\ Auths'[a] = first
            /\ \A b \in AuthorizationIds \ {a} : Auths'[b] = Auths[b]
        BY <1>2, <1>4, <3>1, WithAuthorizationAgrees DEF Auths
      <4>2. first \in Authorizations /\ first.revision = 1
        BY BoundAssumption DEF Authorizations, Tokens
      <4> QED BY <4>1, <4>2, AbsenceAssumption
    <3>3. Known(Auths') = Known(Auths) \cup {r} /\ \A b \in Known(Auths) : Auths'[b] = Auths[b]
      BY <1>4, <3>1, <3>2 DEF Known
    <3>4. UpdateBy(r)
      <4>1. \A b \in Known(Auths) : Auths'[b].revision = Auths[b].revision
        BY <3>3
      <4>2. \A b \in Known(Auths') : b \in Known(Auths) \/ (b = r /\ b = run[r].id)
        BY <3>1, <3>3
      <4>3. UNCHANGED <<credentials, issued, valid, inflight, expiring, interrupted>>
        BY <1>1, <1>6
      <4> QED BY <1>1, <1>2, <2>1, <3>3, <4>1, <4>2, <4>3 DEF UpdateBy
    <3>5. TypeOK'
      BY <1>1, <1>6, <2>1, <3>2 DEF TypeOK, RunRecord
    <3>6. First # None /\ First.refresh = 1
      BY BoundAssumption, AbsenceAssumption DEF First, Credentials, Tokens
    <3>7. Stored(r)'
      BY <1>1, <3>1, <3>2, <3>6 DEF Stored, Active, Auths
    <3> QED BY <2>1, <3>1, <3>2, <3>3, <3>4, <3>5, <3>7, UpdateKeeps DEF Agree
  <2>3. CASE Command[r] # "authorize"
    <3>1. /\ Refreshing(r) /\ HoldsRefresh(r) /\ a \in Known(Auths) /\ Auths[a].revision = run[r].revision
          /\ channel' = WithRevision(channel, a, run[r].revision + 1)
      BY <1>1, <1>6, <2>3 DEF Refreshing, HoldsRefresh
    <3>2. /\ run[r].revision + 1 <= issued[a] /\ run[r].token \in Credentials
          /\ a \notin interrupted => run[r].token.refresh = valid[a]
          /\ credentials[a][run[r].revision + 1] = run[r].token
      BY <1>1, <3>1 DEF RunInv, RunRefreshes
    <3>3. run[r].revision + 1 \in Tokens
      <4>1. run[r].revision \in Nat /\ issued[a] \in 0..MaxTokens
        BY <1>1, <1>4, <3>1, RevisionType, Parts
      <4> QED BY <3>2, <4>1, BoundAssumption DEF Tokens
    <3>4. /\ channel' \in Channels /\ Agree(channel') /\ Known(Auths') = Known(Auths)
          /\ Auths'[a].revision = run[r].revision + 1
          /\ \A b \in AuthorizationIds \ {a} : Auths'[b] = Auths[b]
      BY <1>2, <3>1, <3>3, WithRevisionAgrees DEF Auths
    <3>5. UpdateBy(r)
      <4>1. \A b \in Known(Auths) : Auths'[b].revision = Auths[b].revision \/ b = a
        BY <3>4 DEF Known
      <4>2. UNCHANGED <<credentials, issued, valid, inflight, expiring, interrupted>>
        BY <1>1, <1>6
      <4> QED BY <1>1, <1>2, <2>1, <3>1, <3>4, <4>1, <4>2 DEF UpdateBy
    <3>6. TypeOK'
      BY <1>1, <1>6, <2>1, <3>4 DEF TypeOK, RunRecord
    <3>7. Active(a) # None /\ run[r].token # None
      BY <3>1, <3>2, AbsenceAssumption DEF AuthInv, Stored
    <3>8. ASSUME NEW b \in Known(Auths'), b = a PROVE Stored(b)'
      BY <1>1, <1>6, <3>2, <3>4, <3>7, <3>8 DEF Stored, Active, Auths
    <3> QED BY <2>1, <3>1, <3>4, <3>5, <3>6, <3>8, UpdateKeeps DEF Agree
  <2> QED BY <2>2, <2>3
<1> QED BY <1>2, <1>5, <1>6 DEF Activate, Auths

LEMMA RecordKeeps == ASSUME AuthInv, NEW r \in Runs, Record(r) PROVE AuthInv'
<1> DEFINE a == run[r].id
<1>1. /\ TypeOK /\ RunInv(r) /\ run[r] \in RunRecord /\ run[r].pc = "recording" /\ End(r)
      /\ UNCHANGED <<credentials, issued, valid, inflight, expiring, interrupted>>
  BY Parts DEF AuthInv, Record, server
<1>2. channelLock = r /\ run[r].file = channel /\ channel \in Channels /\ Agree(channel)
  BY <1>1, Parts DEF AuthInv, RunInv, RunLocks
<1>3. ~HoldsRefresh(r) /\ ~Refreshing(r)
  BY <1>1 DEF HoldsRefresh, Refreshing
<1>4. CASE UNCHANGED channel
  <2>1. TypeOK'
    BY <1>1, <1>4, EndOfRun DEF TypeOK, RunRecord
  <2>2. QuietFor(r)
    BY <1>1, <1>4, EndOfRun DEF QuietFor, Active
  <2> QED BY <1>1, <1>3, <2>1, <2>2, EndOfRun, QuietKeeps
<1>5. CASE a \in Known(Auths) /\ channel' = WithAccounts(channel, a, run[r].accounts)
  <2>1. run[r].accounts \in SUBSET Accounts
    BY <1>1 DEF RunRecord
  <2>2. a \in Known(channel.authorizations)
    BY <1>5 DEF Auths
  <2>3. /\ channel' \in Channels /\ Agree(channel')
        /\ Known(channel'.authorizations) = Known(channel.authorizations)
        /\ \A b \in Known(channel.authorizations) :
              channel'.authorizations[b].revision = channel.authorizations[b].revision
    <3>1. ASSUME NEW b \in Known(channel.authorizations), NEW given \in SUBSET Accounts
          PROVE  LET new == WithAccounts(channel, b, given) IN
                 /\ new \in Channels /\ Agree(new)
                 /\ Known(new.authorizations) = Known(channel.authorizations)
                 /\ \A d \in Known(channel.authorizations) :
                       new.authorizations[d].revision = channel.authorizations[d].revision
      BY <1>2, WithAccountsAgrees, ZenonT(60)
    <3> QED BY <1>5, <2>1, <2>2, <3>1
  <2>4. Known(Auths') = Known(Auths) /\ \A b \in Known(Auths) : Auths'[b].revision = Auths[b].revision
    BY <2>3 DEF Auths
  <2>5. TypeOK'
    BY <1>1, <2>3, EndOfRun DEF TypeOK, RunRecord
  <2>6. UpdateBy(r)
    BY <1>1, <1>2, <2>4, EndOfRun DEF UpdateBy
  <2>7. ASSUME NEW b \in Known(Auths'), b = a PROVE Stored(b)'
    <3>1. Stored(b) /\ Active(b)' = Active(b) /\ Auths'[b].revision = Auths[b].revision
      BY <1>1, <2>4 DEF AuthInv, Active, Auths
    <3>2. \A s \in Runs \ {r} : Refreshing(s)' = Refreshing(s) /\ run'[s].id = run[s].id
      BY <1>1, EndOfRun DEF Refreshing
    <3>3. ASSUME \A s \in Runs : Refreshing(s)' => run'[s].id # b
          PROVE  \A s \in Runs : Refreshing(s) => run[s].id # b
      BY <1>3, <3>2, <3>3
    <3> QED BY <1>1, <3>1, <3>3 DEF Stored
  <2> QED BY <1>1, <2>3, <2>5, <2>6, <2>7, EndOfRun, UpdateKeeps DEF Agree
<1> QED BY <1>2, <1>4, <1>5 DEF Record, Auths

-----------------------------------------------------------------------------
(* The server and the clock                                                *)

(* Requests for one authorization that nobody cut off are one.             *)
LEMMA OneRequestOut ==
    ASSUME AuthInv, NEW q \in inflight, NEW p \in inflight, q.id = p.id, q.id \notin interrupted
    PROVE  p = q
<1>1. Asked(q) /\ Asked(p) /\ q.run \in Runs /\ p.run \in Runs
  BY Parts DEF AuthInv, Requests
<1>2. HoldsRefresh(q.run) /\ HoldsRefresh(p.run) /\ run[q.run].id = run[p.run].id
  BY <1>1 DEF Asked, HoldsRefresh
<1>3. p.run = q.run
  BY <1>1, <1>2, OneRefresh DEF AuthInv
<1> QED BY <1>3 DEF AuthInv, AskedOnce

LEMMA AgeKeeps == ASSUME AuthInv, NEW a \in AuthorizationIds, Age(a) PROVE AuthInv'
<1>1. UNCHANGED <<channel, credentials, refreshLock, channelLock, run, issued, valid, inflight, interrupted>>
  BY DEF Age, server
<1>2. expiring' \subseteq AuthorizationIds \X Tokens
  <2>1. issued[a] \in 0..MaxTokens /\ expiring \subseteq AuthorizationIds \X Tokens
    BY DEF AuthInv, TypeOK
  <2>2. 1..issued[a] \subseteq Tokens
    BY <2>1, BoundAssumption DEF Tokens
  <2> QED BY <2>1, <2>2 DEF Age
<1>3. TypeOK'
  BY <1>1, <1>2 DEF AuthInv, TypeOK
<1>4. ASSUME NEW r \in Runs PROVE RunInv(r)'
  <2>1. RunInv(r)
    BY DEF AuthInv
  <2> QED BY <1>1, <2>1 DEF RunInv, RunLocks, RunKnows, RunFounds, RunRefreshes, HoldsRefresh, Founding,
             Refreshing, Auths
<1>5. \A q \in inflight' : Asked(q)'
  BY <1>1 DEF AuthInv, Asked, Active, Auths
<1>6. \A b \in Known(Auths') : Stored(b)'
  BY <1>1 DEF AuthInv, Stored, Active, Auths, Refreshing
<1>7. Agree(channel)' /\ AskedOnce'
  BY <1>1 DEF AuthInv, Agree, AskedOnce
<1> QED BY <1>3, <1>4, <1>5, <1>6, <1>7 DEF AuthInv

(* A request that buys nothing only leaves the wire.                       *)
LEMMA RefusalKeeps ==
    ASSUME AuthInv, NEW q \in inflight, Land(q), UNCHANGED <<issued, valid, run>>
    PROVE  AuthInv'
<1>1. /\ UNCHANGED <<channel, credentials, refreshLock, channelLock, run, issued, valid, expiring, interrupted>>
      /\ inflight' \subseteq inflight
  BY DEF Land
<1>2. TypeOK'
  BY <1>1 DEF AuthInv, TypeOK
<1>3. ASSUME NEW r \in Runs PROVE RunInv(r)'
  <2>1. RunInv(r)
    BY DEF AuthInv
  <2> QED BY <1>1, <2>1 DEF RunInv, RunLocks, RunKnows, RunFounds, RunRefreshes, HoldsRefresh, Founding,
             Refreshing, Auths
<1>4. \A p \in inflight' : Asked(p)'
  BY <1>1 DEF AuthInv, Asked, Active, Auths
<1>5. \A b \in Known(Auths') : Stored(b)'
  BY <1>1 DEF AuthInv, Stored, Active, Auths, Refreshing
<1>6. Agree(channel)' /\ AskedOnce'
  BY <1>1 DEF AuthInv, Agree, AskedOnce
<1> QED BY <1>2, <1>3, <1>4, <1>5, <1>6 DEF AuthInv

(* A request that is granted a token: its run goes on with it, or still    *)
(* waits for an answer that is lost.                                       *)
LEMMA GrantKeeps ==
    ASSUME AuthInv, NEW q \in inflight, Land(q), ~UNCHANGED <<issued, valid, run>>
    PROVE  AuthInv'
<1> DEFINE a == q.id  n == issued[a] + 1  s == q.run
<1>1. /\ TypeOK /\ Asked(q) /\ a \in Known(Auths) /\ a \in AuthorizationIds /\ s \in Runs
      /\ issued[a] \in 0..MaxTokens /\ q.refresh \in Tokens
  BY Parts DEF AuthInv, Asked, Requests, Known
<1>2. /\ issued[a] # MaxTokens /\ issued' = [issued EXCEPT ![a] = n] /\ inflight' = inflight \ {q}
      /\ UNCHANGED <<channel, credentials, refreshLock, channelLock, expiring, interrupted>>
  BY DEF Land
<1>3. PICK refresh \in {n, q.refresh} :
         /\ valid' = [valid EXCEPT ![a] = refresh]
         /\ \/ /\ run[s].pc = "wait"
               /\ run' = [run EXCEPT ![s].pc = "write", ![s].token = [access |-> n, refresh |-> refresh]]
            \/ run' = run
  BY DEF Land
<1>4. n \in Tokens /\ refresh \in Tokens /\ n \in Nat /\ n = issued[a] + 1 /\ n \in 0..MaxTokens
      /\ refresh \in 0..MaxTokens
  BY <1>1, <1>2, BoundAssumption DEF Tokens
<1>5. /\ issued'[a] = n /\ valid'[a] = refresh
      /\ \A b \in AuthorizationIds \ {a} : issued'[b] = issued[b] /\ valid'[b] = valid[b]
      /\ \A b \in AuthorizationIds : issued'[b] >= issued[b]
      /\ issued' \in [AuthorizationIds -> 0..MaxTokens] /\ valid' \in [AuthorizationIds -> 0..MaxTokens]
  BY <1>1, <1>2, <1>3, <1>4, Parts
<1> DEFINE token == [access |-> n, refresh |-> refresh]
<1>6. token \in Credentials /\ token.refresh = refresh
  BY <1>4 DEF Credentials
<1>7. /\ run' \in [Runs -> RunRecord]
      /\ \A r \in Runs \ {s} : run'[r] = run[r]
      /\ \/ run'[s] = run[s]
         \/ /\ run[s].pc = "wait" /\ run'[s].pc = "write" /\ run'[s].token = token
            /\ run'[s].id = run[s].id /\ run'[s].revision = run[s].revision
  <2>1. CASE run' = run
    BY <1>1, <2>1, Parts
  <2>2. CASE /\ run[s].pc = "wait"
             /\ run' = [run EXCEPT ![s].pc = "write", ![s].token = token]
    <3> DEFINE new == [run[s] EXCEPT !.pc = "write", !.token = token]
    <3>1. run[s] \in RunRecord
      BY <1>1, Parts
    <3>2. /\ new \in RunRecord /\ new.pc = "write" /\ new.token = token /\ new.id = run[s].id
          /\ new.revision = run[s].revision
      BY <1>6, <3>1 DEF RunRecord, Pcs
    <3>3. run' = [run EXCEPT ![s] = new]
      BY <1>1, <2>2, Parts
    <3> HIDE DEF new, token
    <3> QED BY <1>1, <2>2, <3>2, <3>3, Parts
  <2> QED BY <1>3, <2>1, <2>2
<1> HIDE DEF token
<1>8. TypeOK'
  BY <1>1, <1>2, <1>5, <1>7 DEF TypeOK, RunRecord
<1>9. Auths' = Auths /\ (\A b \in Known(Auths) : Active(b)' = Active(b)) /\ Agree(channel)'
  BY <1>2 DEF Auths, Active, AuthInv, Agree
<1>10. \A r \in Runs : /\ HoldsRefresh(r)' = HoldsRefresh(r) /\ Refreshing(r)' = Refreshing(r)
                       /\ Founding(r)' = Founding(r) /\ run'[r].id = run[r].id
                       /\ run'[r].revision = run[r].revision
  <2>1. Command[s] # "authorize"
    BY <1>1 DEF Asked
  <2> QED BY <1>7, <2>1 DEF HoldsRefresh, Refreshing, Founding
<1>11. ASSUME NEW r \in Runs PROVE RunInv(r)'
  <2>1. RunInv(r)
    BY DEF AuthInv
  <2>2. RunLocks(r)'
    <3>1. run'[r].pc \in {"activating", "recording"} => run'[r] = run[r]
      BY <1>7
    <3> QED BY <1>2, <1>10, <2>1, <3>1 DEF RunInv, RunLocks
  <2>3. RunKnows(r)'
    <3>1. run'[r] = run[r] \/ (run'[r].pc = "write" /\ run[r].pc = "wait" /\ r = s)
      BY <1>7
    <3> QED BY <1>9, <1>10, <2>1, <3>1 DEF RunInv, RunKnows
  <2>4. RunFounds(r)'
    <3> SUFFICES ASSUME Founding(r) PROVE RunFounds(r)'
      BY <1>10 DEF RunFounds
    <3>1. run'[r] = run[r] /\ r # a /\ r \in AuthorizationIds
      BY <1>1, <1>7, <2>1, Ids DEF Founding, RunInv, RunFounds, Known
    <3> QED BY <1>2, <1>5, <1>9, <2>1, <3>1 DEF RunInv, RunFounds
  <2>5. RunRefreshes(r)'
    <3> SUFFICES ASSUME Refreshing(r) PROVE RunRefreshes(r)'
      BY <1>10 DEF RunRefreshes
    <3>1. run[r].id \in Known(Auths) /\ run[r].id \in AuthorizationIds /\ HoldsRefresh(r)
      BY <2>1, RefreshingHolds DEF RunInv, RunKnows, Known
    <3>2. run[r].revision = Auths[run[r].id].revision
      BY <2>1 DEF RunInv, RunRefreshes
    <3>3. CASE run'[r] # run[r]
      <4>1. /\ r = s /\ run[r].pc = "wait" /\ run'[r].pc = "write" /\ run'[r].token = token
            /\ run[r].id = a
        BY <1>1, <1>7, <3>3 DEF Asked
      <4>2. Stored(a)
        BY <1>1 DEF AuthInv
      <4>3. run[r].revision + 1 <= n
        <5>1. Auths[a].revision <= issued[a] /\ Auths[a].revision \in Nat /\ issued[a] \in Nat
          BY <1>1, <4>2, RevisionType DEF Stored
        <5> QED BY <1>4, <3>2, <4>1, <5>1
      <4> QED BY <1>5, <1>6, <1>9, <1>10, <3>2, <4>1, <4>3 DEF RunRefreshes
    <3>4. CASE run'[r] = run[r]
      <4>1. run[r].pc # "wait" => run[r].revision + 1 <= issued'[run[r].id]
        <5>1. run[r].pc # "wait" => run[r].revision + 1 <= issued[run[r].id]
          BY <2>1 DEF RunInv, RunRefreshes
        <5>2. issued'[run[r].id] >= issued[run[r].id] /\ issued[run[r].id] \in Nat
              /\ issued'[run[r].id] \in Nat /\ run[r].revision \in Nat
          BY <1>1, <1>5, <3>1, <3>2, RevisionType, Parts
        <5> QED BY <5>1, <5>2
      <4>2. run[r].pc # "wait" /\ run[r].id \notin interrupted => run[r].id # a
        <5>1. run[r].id = a /\ a \notin interrupted => r = s /\ run[s].pc = "wait"
          <6> SUFFICES ASSUME run[r].id = a, a \notin interrupted PROVE r = s /\ run[s].pc = "wait"
            OBVIOUS
          <6>1. run[s].pc = "wait" /\ run[s].id = a /\ Command[s] # "authorize"
            BY <1>1 DEF Asked
          <6>2. HoldsRefresh(s)
            BY <6>1 DEF HoldsRefresh
          <6> QED BY <1>1, <3>1, <6>1, <6>2, OneRefresh DEF AuthInv
        <5> QED BY <5>1
      <4> QED BY <1>2, <1>5, <1>9, <2>1, <3>1, <3>2, <3>4, <4>1, <4>2 DEF RunInv, RunRefreshes
    <3> QED BY <3>3, <3>4
  <2> QED BY <2>2, <2>3, <2>4, <2>5 DEF RunInv
<1>12. ASSUME NEW p \in inflight' PROVE Asked(p)'
  <2>1. p \in inflight /\ p # q /\ Asked(p) /\ p.run \in Runs /\ p.id \in Known(Auths)
    BY <1>2, Parts DEF AuthInv, Requests, Asked
  <2>2. p.run # s
    BY <1>1, <2>1 DEF AuthInv, AskedOnce
  <2>3. run'[p.run] = run[p.run]
    BY <1>7, <2>1, <2>2
  <2>4. p.id = a => a \in interrupted
    BY <2>1, OneRequestOut
  <2>5. p.id \in AuthorizationIds /\ Active(p.id)' = Active(p.id)
    BY <1>9, <2>1 DEF Known
  <2> QED BY <1>2, <1>5, <1>9, <2>1, <2>3, <2>4, <2>5 DEF Asked
<1>13. ASSUME NEW b \in Known(Auths') PROVE Stored(b)'
  <2>1. Stored(b) /\ b \in Known(Auths) /\ b \in AuthorizationIds /\ Active(b)' = Active(b)
    BY <1>9 DEF AuthInv, Known
  <2>2. Auths'[b].revision <= issued'[b]
    <3>1. Auths[b].revision <= issued[b] /\ Auths[b].revision \in Nat /\ issued[b] \in Nat /\ issued'[b] \in Nat
      BY <1>1, <1>5, <2>1, RevisionType, Parts DEF Stored
    <3> QED BY <1>5, <1>9, <2>1, <3>1
  <2>3. ASSUME b \notin interrupted, \A r \in Runs : Refreshing(r)' => run'[r].id # b
        PROVE  Active(b).refresh = valid'[b]
    <3>1. \A r \in Runs : Refreshing(r) => run[r].id # b
      BY <1>10, <2>3
    <3>2. b # a
      <4>1. b = a => run[s].pc = "wait" /\ run[s].id = b /\ Command[s] # "authorize"
        BY <1>1, <2>3 DEF Asked
      <4> QED BY <1>1, <3>1, <4>1 DEF Refreshing
    <3> QED BY <1>5, <2>1, <2>3, <3>1, <3>2 DEF Stored
  <2> QED BY <1>2, <2>1, <2>2, <2>3 DEF Stored
<1>14. AskedOnce'
  BY <1>2 DEF AuthInv, AskedOnce
<1> QED BY <1>8, <1>9, <1>11, <1>12, <1>13, <1>14 DEF AuthInv

-----------------------------------------------------------------------------
(* Together                                                                *)

LEMMA AuthInitially == Init => AuthInv
<1> SUFFICES ASSUME Init PROVE AuthInv
  OBVIOUS
<1>1. Known(Auths) = {} /\ inflight = {} /\ \A r \in Runs : run[r] = Fresh
  BY DEF Init, Auths, Known
<1>2. Fresh \in RunRecord /\ Fresh.pc = "idle" /\ Fresh.revision = 0
  BY DEF Fresh, RunRecord, Pcs
<1>3. TypeOK
  <2>1. run \in [Runs -> RunRecord]
    BY <1>2 DEF Init
  <2>2. channel \in Channels
    BY DEF Init, Channels
  <2> QED BY <2>1, <2>2, BoundAssumption DEF Init, TypeOK, RunRecord
<1>4. Agree(channel)
  <2>1. Known(channel.authorizations) = {}
    BY <1>1 DEF Auths
  <2>2. \A x \in Accounts : channel.owner[x] = None
    BY DEF Init
  <2>3. \A v \in Advertisers : channel.cover[v] = {}
    BY DEF Init
  <2> QED BY <2>1, <2>2, <2>3 DEF Agree, Holders
<1>5. \A r \in Runs : r \in AuthorizationIds => Auths[r] = None
  BY DEF Init, Auths
<1>6. ASSUME NEW r \in Runs PROVE RunInv(r)
  BY <1>1, <1>2, <1>5, Ids DEF RunInv, RunLocks, RunKnows, RunFounds, RunRefreshes, HoldsRefresh, Founding,
     Refreshing
<1> QED BY <1>1, <1>3, <1>4, <1>6 DEF AuthInv, AskedOnce

LEMMA AuthKept == AuthInv /\ [Next]_vars => AuthInv'
<1> SUFFICES ASSUME AuthInv, [Next]_vars PROVE AuthInv'
  OBVIOUS
<1>1. ASSUME NEW r \in Runs, Start(r) \/ RunStep(r) \/ Stop(r) PROVE AuthInv'
  BY <1>1, StartKeeps, LockKeeps, DecideKeeps, WriteKeeps, LoadKeeps, ActivateKeeps, DiscoverKeeps,
     RecordKeeps, StopKeeps DEF RunStep
<1>2. ASSUME NEW q \in inflight, Land(q) PROVE AuthInv'
  BY <1>2, RefusalKeeps, GrantKeeps
<1>3. ASSUME NEW a \in AuthorizationIds, Age(a) PROVE AuthInv'
  BY <1>3, AgeKeeps
<1>4. CASE UNCHANGED vars
  <2>1. UNCHANGED <<channel, credentials, refreshLock, channelLock, run, issued, valid, expiring, inflight,
                    interrupted>>
    BY <1>4 DEF vars, server
  <2>2. TypeOK'
    BY <2>1 DEF AuthInv, TypeOK
  <2>3. ASSUME NEW r \in Runs PROVE RunInv(r)'
    <3>1. RunInv(r)
      BY DEF AuthInv
    <3> QED BY <2>1, <3>1 DEF RunInv, RunLocks, RunKnows, RunFounds, RunRefreshes, HoldsRefresh, Founding,
               Refreshing, Auths
  <2>4. \A q \in inflight' : Asked(q)'
    BY <2>1 DEF AuthInv, Asked, Active, Auths
  <2>5. \A b \in Known(Auths') : Stored(b)'
    BY <2>1 DEF AuthInv, Stored, Active, Auths, Refreshing
  <2>6. Agree(channel)' /\ AskedOnce'
    BY <2>1 DEF AuthInv, Agree, AskedOnce
  <2> QED BY <2>2, <2>3, <2>4, <2>5, <2>6 DEF AuthInv
<1> QED BY <1>1, <1>2, <1>3, <1>4 DEF Next

(* Whatever runs at once, the indexes of the state file say what its       *)
(* authorizations say, and every variable keeps its type.                  *)
THEOREM IndexesMatch == Spec => []IndexesAgree
<1>1. AuthInv => IndexesAgree
  BY DEF AuthInv, IndexesAgree, Agree, Holders, Auths
<1> QED BY <1>1, AuthInitially, AuthKept, PTL DEF Spec

(* The token in use is always in the credential store, and is the one the  *)
(* server takes while nobody refreshes it, unless a refresh was cut off.   *)
THEOREM TokenCurrent == Spec => []ActiveTokenIsCurrent
<1>1. AuthInv => ActiveTokenIsCurrent
  <2> SUFFICES ASSUME AuthInv, NEW a \in Known(channel.authorizations)
               PROVE  /\ Active(a) # None
                      /\ (a \notin interrupted /\ refreshLock[a] = None) => Active(a).refresh = valid[a]
    BY DEF ActiveTokenIsCurrent
  <2>1. Stored(a)
    BY DEF AuthInv, Auths
  <2>2. ASSUME refreshLock[a] = None PROVE \A r \in Runs : Refreshing(r) => run[r].id # a
    BY <2>2, RefreshingHolds, Ids DEF AuthInv, RunInv, RunLocks
  <2> QED BY <2>1, <2>2 DEF Stored
<1> QED BY <1>1, AuthInitially, AuthKept, PTL DEF Spec

(* One refresh of an authorization at a time, and with a token the server  *)
(* takes.                                                                  *)
THEOREM SingleFlight == Spec => RefreshIsSingleFlight
<1> DEFINE Due(q) == q.id \notin interrupted =>
                        /\ q.refresh = valid[q.id]
                        /\ \A r \in Runs \ {q.run} : ~(Refreshing(r) /\ run[r].id = q.id)
           One == \A q \in inflight' \ inflight : Due(q)
<1>1. AuthInv /\ [Next]_vars => [One]_vars
  <2> SUFFICES ASSUME AuthInv, Next PROVE One
    OBVIOUS
  <2>1. ASSUME NEW r \in Runs, Decide(r), NEW q \in inflight' \ inflight PROVE Due(q)
    <3>1. run[r].pc = "decide" /\ q = [run |-> r, id |-> run[r].id, refresh |-> Active(run[r].id).refresh]
      BY <2>1 DEF Decide, Active
    <3>2. /\ run[r].id \notin interrupted => Active(run[r].id).refresh = valid[run[r].id]
          /\ HoldsRefresh(r) /\ ~Refreshing(r)
      BY <3>1, TokenInUse
    <3>3. \A s \in Runs : Refreshing(s) => run[s].id # run[r].id
      BY <3>2, NobodyElseRefreshes
    <3> QED BY <3>1, <3>2, <3>3
  <2>2. ASSUME NEW r \in Runs, Start(r) \/ Lock(r) \/ Write(r) \/ Load(r) \/ Activate(r) \/ Discover(r)
                               \/ Record(r) \/ Stop(r)
        PROVE  inflight' = inflight
    BY <2>2 DEF Start, Lock, Write, Load, Activate, Discover, Record, Stop, server
  <2>3. ASSUME NEW q \in inflight, Land(q) PROVE inflight' \subseteq inflight
    BY <2>3 DEF Land
  <2>4. ASSUME NEW a \in AuthorizationIds, Age(a) PROVE inflight' = inflight
    BY <2>4 DEF Age, server
  <2> QED BY <2>1, <2>2, <2>3, <2>4 DEF Next, RunStep
<1>2. [][One]_vars => RefreshIsSingleFlight
  BY PTL DEF RefreshIsSingleFlight
<1> QED BY <1>1, <1>2, AuthInitially, AuthKept, PTL DEF Spec

(* What one command has put into the state file no other one takes out: no *)
(* revision goes back, no authorization is lost, and accounts pass from    *)
(* one authorization to another only where a command may rebind them.      *)
THEOREM UpdatesStay == Spec => NothingIsUndone
<1> DEFINE Grows == \A a \in Known(channel.authorizations) :
                       /\ channel'.authorizations[a] # None
                       /\ channel'.authorizations[a].revision >= channel.authorizations[a].revision
           Moves == \A x \in Accounts :
                       (channel.owner[x] # None /\ channel'.owner[x] \notin {None, channel.owner[x]}) =>
                           \E r \in Rebind : run[r].pc = "recording" /\ run[r].id = channel'.owner[x]
<1>1. AuthInv /\ [Next]_vars => [Grows /\ Moves]_vars
  <2> SUFFICES ASSUME AuthInv, Next PROVE Grows /\ Moves
    OBVIOUS
  <2>1. TypeOK /\ channel \in Channels /\ Agree(channel) /\ \A r \in Runs : RunInv(r)
    BY Parts DEF AuthInv
  <2>2. \A b \in Known(channel.authorizations) :
           channel.authorizations[b] # None /\ channel.authorizations[b].revision \in Nat
    BY <2>1, RevisionType DEF Auths, Known
  <2>3. CASE channel' = channel
    BY <2>2, <2>3
  <2>4. ASSUME NEW r \in Runs, Activate(r), channel' # channel PROVE Grows /\ Moves
    <3> DEFINE a == run[r].id
    <3>1. run[r].pc = "activating" /\ run[r].file = channel
      BY <2>1, <2>4 DEF Activate, RunInv, RunLocks
    <3>2. CASE Command[r] = "authorize" /\ channel' = WithAuthorization(channel, a)
      <4>1. a \in AuthorizationIds /\ channel.authorizations[a] = None
        BY <2>1, <3>1, <3>2, Ids DEF RunInv, RunFounds, Founding, Auths
      <4>2. /\ channel'.owner = channel.owner
            /\ \A b \in AuthorizationIds \ {a} : channel'.authorizations[b] = channel.authorizations[b]
        BY <2>1, <3>2, <4>1, WithAuthorizationAgrees
      <4> QED BY <2>2, <4>1, <4>2 DEF Known
    <3>3. CASE /\ a \in Known(channel.authorizations)
               /\ channel.authorizations[a].revision = run[r].revision
               /\ channel' = WithRevision(channel, a, run[r].revision + 1)
               /\ Command[r] # "authorize"
      <4>1. run[r].revision + 1 \in Tokens /\ run[r].revision + 1 >= run[r].revision
        <5>1. Refreshing(r)
          BY <3>1, <3>3 DEF Refreshing
        <5>2. run[r].revision + 1 <= issued[a] /\ issued[a] \in 0..MaxTokens
          BY <2>1, <3>1, <3>3, <5>1, Parts DEF RunInv, RunRefreshes, Known
        <5>3. run[r].revision \in Nat
          BY <2>2, <3>3
        <5> QED BY <5>2, <5>3, BoundAssumption DEF Tokens
      <4>2. /\ channel'.owner = channel.owner
            /\ Known(channel'.authorizations) = Known(channel.authorizations)
            /\ channel'.authorizations[a].revision = run[r].revision + 1
            /\ \A b \in AuthorizationIds \ {a} : channel'.authorizations[b] = channel.authorizations[b]
        BY <2>1, <3>3, <4>1, WithRevisionAgrees
      <4>3. Grows
        BY <2>2, <3>3, <4>1, <4>2 DEF Known
      <4> QED BY <4>2, <4>3
    <3> QED BY <2>4, <3>1, <3>2, <3>3 DEF Activate
  <2>5. ASSUME NEW r \in Runs, Record(r), channel' # channel PROVE Grows /\ Moves
    <3> DEFINE a == run[r].id  given == run[r].accounts
    <3>1. run[r].pc = "recording" /\ run[r].file = channel /\ given \in SUBSET Accounts
      BY <2>1, <2>5, Parts DEF Record, RunInv, RunLocks, RunRecord
    <3>2. /\ a \in Known(channel.authorizations) /\ channel' = WithAccounts(channel, a, given)
          /\ Conflicts(channel, a, given) = {} \/ r \in Rebind
      BY <2>5, <3>1 DEF Record
    <3>3. ASSUME NEW b \in Known(channel.authorizations), NEW got \in SUBSET Accounts
          PROVE  LET new == WithAccounts(channel, b, got) IN
                 /\ Known(new.authorizations) = Known(channel.authorizations)
                 /\ \A d \in Known(channel.authorizations) :
                       new.authorizations[d].revision = channel.authorizations[d].revision
                 /\ \A x \in Accounts : channel.owner[x] # None /\ new.owner[x] \notin {None, channel.owner[x]}
                                        => new.owner[x] = b /\ x \in Conflicts(channel, b, got)
      BY <2>1, WithAccountsAgrees, ZenonT(60)
    <3>4. /\ Known(channel'.authorizations) = Known(channel.authorizations)
          /\ \A d \in Known(channel.authorizations) :
                channel'.authorizations[d].revision = channel.authorizations[d].revision
          /\ \A x \in Accounts : channel.owner[x] # None /\ channel'.owner[x] \notin {None, channel.owner[x]}
                                 => channel'.owner[x] = a /\ x \in Conflicts(channel, a, given)
      BY <3>1, <3>2, <3>3
    <3>5. Grows
      BY <2>2, <3>4 DEF Known
    <3>6. Moves
      BY <3>1, <3>2, <3>4
    <3> QED BY <3>5, <3>6
  <2>6. channel' = channel \/ \E r \in Runs : Activate(r) \/ Record(r)
    BY DEF Next, RunStep, Start, Lock, Decide, Write, Load, Discover, Stop, Land, Age
  <2> QED BY <2>3, <2>4, <2>5, <2>6
<1>2. [][Grows /\ Moves]_vars => NothingIsUndone
  <2>1. [][Grows /\ Moves]_vars => [][Grows]_vars /\ [][Moves]_vars
    BY PTL
  <2> QED BY <2>1 DEF NothingIsUndone, RevisionsOnlyGrow, AccountsMoveOnRebind
<1> QED BY <1>1, <1>2, AuthInitially, AuthKept, PTL DEF Spec
=============================================================================
