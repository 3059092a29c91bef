---------------------------- MODULE Authorization ----------------------------
(***************************************************************************)
(* The authorizations of one channel and their tokens.  "authorize" stores *)
(* the token of a new authorization and discovers its accounts; "ensure"   *)
(* is any command that needs the token of an advertiser, and refreshes it  *)
(* when it is about to expire; "refresh" forces that; "sync" discovers the *)
(* accounts of an authorization anew.  Processes share the credential      *)
(* store, where each token revision has an entry of its own, and the       *)
(* channel's state file, which names the revision in use and indexes the   *)
(* accounts and advertisers.  A refresh lock serialises the refreshes of   *)
(* one authorization, a channel lock the updates of the state file.        *)
(*                                                                         *)
(* The OAuth server is external: it takes each refresh token once, and may *)
(* replace it whether or not its answer arrives.                           *)
(***************************************************************************)
EXTENDS Integers, FiniteSets

CONSTANTS
    Runs,          \* invocations of the CLI or the MCP server's tools
    Command,       \* what each run does
    Rebind,        \* runs given --rebind-existing
    Accounts, Advertisers,
    AdvertisersOf, \* advertisers reached through an account
    MaxTokens,     \* bound on the tokens granted to an authorization
    None

Commands == {"authorize", "ensure", "refresh", "sync"}

(* An authorize run generates a fresh ID; here the run itself.             *)
AuthorizationIds == {r \in Runs : Command[r] = "authorize"}

ASSUME CommandAssumption == Command \in [Runs -> Commands] /\ Rebind \subseteq Runs
ASSUME AccountAssumption == AdvertisersOf \in [Accounts -> SUBSET Advertisers]
ASSUME BoundAssumption == MaxTokens \in Nat \ {0}
ASSUME NoneAssumption == None \notin Runs

Tokens == 1..MaxTokens
(* The tokens of an authorization, numbered in the order of their grant.   *)
Credentials == [access : Tokens, refresh : Tokens]
Authorizations == [revision : Tokens, pending : BOOLEAN, accounts : SUBSET Accounts]
Channels == [authorizations : [AuthorizationIds -> Authorizations \cup {None}],
             owner : [Accounts -> AuthorizationIds \cup {None}],
             cover : [Advertisers -> SUBSET AuthorizationIds]]
Requests == [run : Runs, id : AuthorizationIds, refresh : Tokens]

ASSUME AbsenceAssumption == None \notin Credentials /\ None \notin Authorizations /\ None \notin Channels

VARIABLES
    channel,      \* the state file: authorizations, account_index, advertiser_index
    credentials,  \* the credential store, by authorization and revision
    refreshLock,  \* holder of each authorization's refresh lock
    channelLock,  \* holder of the state file's lock
    run,          \* progress of each run
    issued,       \* tokens granted to each authorization
    valid,        \* the refresh token the server takes
    expiring,     \* access tokens inside the refresh margin
    inflight,     \* refresh requests under way
    interrupted   \* history: authorizations with a refresh cut off after its request

server == <<issued, valid, inflight>>
vars == <<channel, credentials, refreshLock, channelLock, run, server, expiring, interrupted>>

-----------------------------------------------------------------------------
(* The state file                                                          *)

Covered(auths, a) == UNION {AdvertisersOf[x] : x \in auths[a].accounts}
Known(auths) == {a \in AuthorizationIds : auths[a] # None}

(* ResolveAuthorization: by advertiser exactly one must cover it; by ID    *)
(* the authorization must exist.  Only a sync accepts one that is pending. *)
ByAdvertiser(v, a) ==
    /\ channel.cover[v] = {a} /\ ~channel.authorizations[a].pending
    /\ v \in Covered(channel.authorizations, a)
ById(r, a) ==
    /\ a \in Known(channel.authorizations)
    /\ channel.authorizations[a].pending => Command[r] = "sync"

Holders(auths, x) == {a \in Known(auths) : x \in auths[a].accounts}
Owner(auths) ==
    [x \in Accounts |-> IF Holders(auths, x) = {} THEN None ELSE CHOOSE a \in Holders(auths, x) : TRUE]

(* Mutant: an advertiser stays indexed under its earlier authorizations.   *)
ReindexedKeepingCover(file, auths) ==
    [authorizations |-> auths, owner |-> Owner(auths),
     cover |-> [v \in Advertisers |-> file.cover[v] \cup {a \in Known(auths) : v \in Covered(auths, a)}]]
(* rebuildAuthorizationIndexes; that no account has two holders is implied *)
(* by IndexesAgree and the conflicts that are taken away beforehand.       *)
Reindexed(file, auths) ==
    [authorizations |-> auths, owner |-> Owner(auths),
     cover |-> [v \in Advertisers |-> {a \in Known(auths) : v \in Covered(auths, a)}]]

Conflicts(file, a, accounts) == {x \in accounts : file.owner[x] \notin {None, a}}

(* Authorize adds a pending authorization.                                 *)
WithAuthorization(file, a) ==
    [file EXCEPT !.authorizations[a] = [revision |-> 1, pending |-> TRUE, accounts |-> {}]]
WithRevision(file, a, revision) == [file EXCEPT !.authorizations[a].revision = revision]
(* activateAdvertiserSnapshot: accounts of others are taken from them.     *)
WithAccounts(file, a, accounts) ==
    Reindexed(file, [b \in AuthorizationIds |->
        IF b = a THEN [file.authorizations[a] EXCEPT !.accounts = accounts, !.pending = FALSE]
        ELSE IF file.authorizations[b] = None THEN None
        ELSE [file.authorizations[b] EXCEPT !.accounts = @ \ Conflicts(file, a, accounts)]])

-----------------------------------------------------------------------------
(* A run                                                                   *)

Pcs == {"idle", "lock", "decide", "wait", "write", "activate", "activating",
        "discover", "record", "recording", "done"}

Fresh == [pc |-> "idle", id |-> None, advertiser |-> None, seen |-> 0, revision |-> 0,
          token |-> None, accounts |-> {}, file |-> None]

Released(lock, r) == IF lock = r THEN None ELSE lock

(* The run ends, with its locks released.                                  *)
End(r) ==
    /\ run' = [run EXCEPT ![r] = [Fresh EXCEPT !.pc = "done"]]
    /\ refreshLock' = [a \in AuthorizationIds |-> Released(refreshLock[a], r)]
    /\ channelLock' = Released(channelLock, r)

(* A refresh whose request is out and whose token is not yet in use.       *)
Refreshing(r) ==
    /\ Command[r] # "authorize"
    /\ run[r].pc \in {"wait", "write", "activate", "activating"}
Interrupt(r) ==
    interrupted' = IF Refreshing(r) THEN interrupted \cup {run[r].id} ELSE interrupted

Start(r) ==
    /\ run[r].pc = "idle"
    /\ CASE Command[r] = "authorize" ->
              /\ issued' = [issued EXCEPT ![r] = 1] /\ valid' = [valid EXCEPT ![r] = 1]
              /\ run' = [run EXCEPT ![r].pc = "write", ![r].id = r, ![r].token = [access |-> 1, refresh |-> 1]]
         [] Command[r] = "ensure" ->
              /\ \E v \in Advertisers, a \in AuthorizationIds :
                    /\ ByAdvertiser(v, a)
                    /\ run' = [run EXCEPT ![r].pc = "lock", ![r].id = a, ![r].advertiser = v,
                                          ![r].seen = channel.authorizations[a].revision]
              /\ UNCHANGED <<issued, valid>>
         [] OTHER ->
              /\ \E a \in AuthorizationIds :
                    /\ ById(r, a)
                    /\ run' = [run EXCEPT ![r].pc = "lock", ![r].id = a,
                                          ![r].seen = channel.authorizations[a].revision]
              /\ UNCHANGED <<issued, valid>>
    /\ UNCHANGED <<channel, credentials, refreshLock, channelLock, inflight, expiring, interrupted>>

(* Mutant: the refresh lock is not waited for.                             *)
LockAnyway(r) ==
    /\ run[r].pc = "lock"
    /\ refreshLock' = [refreshLock EXCEPT ![run[r].id] = r]
    /\ run' = [run EXCEPT ![r].pc = "decide"]
    /\ UNCHANGED <<channel, credentials, channelLock, server, expiring, interrupted>>

Lock(r) ==
    /\ run[r].pc = "lock" /\ refreshLock[run[r].id] = None
    /\ refreshLock' = [refreshLock EXCEPT ![run[r].id] = r]
    /\ run' = [run EXCEPT ![r].pc = "decide"]
    /\ UNCHANGED <<channel, credentials, channelLock, server, expiring, interrupted>>

(* Ensure returns the lease, and with it the refresh lock.                 *)
Lease(r) ==
    /\ run' = [run EXCEPT ![r] = IF Command[r] = "sync" THEN [Fresh EXCEPT !.pc = "discover", !.id = run[r].id]
                                 ELSE [Fresh EXCEPT !.pc = "done"]]
    /\ refreshLock' = [refreshLock EXCEPT ![run[r].id] = Released(@, r)]

Reresolved(r) ==
    /\ ById(r, run[r].id)
    /\ run[r].advertiser # None => run[r].advertiser \in Covered(channel.authorizations, run[r].id)

(* A forced refresh gives way to one that has happened meanwhile.          *)
Forced(r, revision) == Command[r] = "refresh" /\ revision = run[r].seen
Ready(a, credential) == <<a, credential.access>> \notin expiring

(* Under the refresh lock the state is read again, then the credential.    *)
Decide(r) ==
    LET a == run[r].id
        revision == channel.authorizations[a].revision
        credential == credentials[a][revision] IN
    /\ run[r].pc = "decide"
    /\ IF ~Reresolved(r) \/ credential = None
       THEN End(r) /\ UNCHANGED inflight
       ELSE /\ channelLock' = channelLock
            /\ IF Ready(a, credential) /\ ~Forced(r, revision)
               THEN Lease(r) /\ UNCHANGED inflight
               ELSE /\ inflight' = inflight \cup {[run |-> r, id |-> a, refresh |-> credential.refresh]}
                    /\ run' = [run EXCEPT ![r].pc = "wait", ![r].revision = revision]
                    /\ UNCHANGED refreshLock
    /\ UNCHANGED <<channel, credentials, issued, valid, expiring, interrupted>>

(* Mutant: the new token replaces the one in use before it is activated.   *)
WriteInPlace(r) ==
    LET a == run[r].id
        slot == IF run[r].revision = 0 THEN 1 ELSE run[r].revision IN
    /\ run[r].pc = "write"
    /\ \/ /\ credentials' = [credentials EXCEPT ![a][slot] = run[r].token]
          /\ run' = [run EXCEPT ![r].pc = "activate"]
          /\ UNCHANGED <<refreshLock, channelLock, interrupted>>
       \/ /\ \E c \in {credentials[a][slot], None, run[r].token} :
                credentials' = [credentials EXCEPT ![a][slot] = c]
          /\ End(r) /\ Interrupt(r)
    /\ UNCHANGED <<channel, server, expiring>>
(* The credential is stored under the next revision; a store that fails    *)
(* may have left the entry as it was, removed it, or written it.           *)
Write(r) ==
    LET a == run[r].id
        slot == run[r].revision + 1 IN
    /\ run[r].pc = "write"
    /\ \/ /\ credentials' = [credentials EXCEPT ![a][slot] = run[r].token]
          /\ run' = [run EXCEPT ![r].pc = "activate"]
          /\ UNCHANGED <<refreshLock, channelLock, interrupted>>
       \/ /\ \E c \in {credentials[a][slot], None, run[r].token} :
                credentials' = [credentials EXCEPT ![a][slot] = c]
          /\ End(r) /\ Interrupt(r)
    /\ UNCHANGED <<channel, server, expiring>>

(* Mutant: the state file is read without its lock.                        *)
LoadUnlocked(r) ==
    /\ run[r].pc \in {"activate", "record"}
    /\ channelLock' = r
    /\ run' = [run EXCEPT ![r].pc = IF run[r].pc = "activate" THEN "activating" ELSE "recording",
                          ![r].file = channel]
    /\ UNCHANGED <<channel, credentials, refreshLock, server, expiring, interrupted>>
(* UpdateChannel, first half: lock and load.                               *)
Load(r) ==
    /\ run[r].pc \in {"activate", "record"} /\ channelLock = None
    /\ channelLock' = r
    /\ run' = [run EXCEPT ![r].pc = IF run[r].pc = "activate" THEN "activating" ELSE "recording",
                          ![r].file = channel]
    /\ UNCHANGED <<channel, credentials, refreshLock, server, expiring, interrupted>>

(* Second half: the changed file becomes current in one rename.  The       *)
(* commit may report an error after that all the same.                     *)
Activate(r) ==
    LET a == run[r].id
        file == run[r].file IN
    /\ run[r].pc = "activating"
    /\ \/ /\ IF Command[r] = "authorize"
             THEN channel' = WithAuthorization(file, a)
             ELSE /\ a \in Known(file.authorizations)
                  /\ file.authorizations[a].revision = run[r].revision
                  /\ channel' = WithRevision(file, a, run[r].revision + 1)
          /\ UNCHANGED interrupted
          /\ \/ End(r)
             \/ /\ channelLock' = None
                /\ IF Command[r] = "authorize"
                   THEN /\ run' = [run EXCEPT ![r] = [Fresh EXCEPT !.pc = "discover", !.id = a]]
                        /\ UNCHANGED refreshLock
                   ELSE Lease(r)
       \/ End(r) /\ Interrupt(r) /\ UNCHANGED channel
    /\ UNCHANGED <<credentials, server, expiring>>

(* The accounts the authorization reaches now; people change them freely.  *)
Discover(r) ==
    /\ run[r].pc = "discover"
    /\ \E accounts \in SUBSET Accounts :
          run' = [run EXCEPT ![r].pc = "record", ![r].accounts = accounts]
    /\ UNCHANGED <<channel, credentials, refreshLock, channelLock, server, expiring, interrupted>>

Record(r) ==
    LET a == run[r].id
        file == run[r].file
        conflicts == Conflicts(file, a, run[r].accounts) IN
    /\ run[r].pc = "recording"
    /\ \/ /\ a \in Known(file.authorizations) /\ (conflicts = {} \/ r \in Rebind)
          /\ channel' = WithAccounts(file, a, run[r].accounts)
       \/ UNCHANGED channel     \* refused, or not committed
    /\ End(r)
    /\ UNCHANGED <<credentials, server, expiring, interrupted>>

(* The process dies, a lock times out, a request or a read fails.          *)
Stop(r) ==
    /\ run[r].pc \notin {"idle", "done"}
    /\ End(r) /\ Interrupt(r)
    /\ UNCHANGED <<channel, credentials, server, expiring>>

-----------------------------------------------------------------------------
(* The OAuth server and the clock                                          *)

(* A refresh token that is no longer valid is refused; one that is valid   *)
(* buys a new access token and, as a rule, a new refresh token.            *)
Land(q) ==
    /\ inflight' = inflight \ {q}
    /\ IF q.refresh # valid[q.id] \/ issued[q.id] = MaxTokens
       THEN UNCHANGED <<issued, valid, run>>
       ELSE LET n == issued[q.id] + 1 IN
            /\ issued' = [issued EXCEPT ![q.id] = n]
            /\ \E refresh \in {n, q.refresh} :
                  /\ valid' = [valid EXCEPT ![q.id] = refresh]
                  /\ \/ /\ run[q.run].pc = "wait"
                        /\ run' = [run EXCEPT ![q.run].pc = "write",
                                              ![q.run].token = [access |-> n, refresh |-> refresh]]
                     \/ run' = run      \* the answer is lost
    /\ UNCHANGED <<channel, credentials, refreshLock, channelLock, expiring, interrupted>>

Age(a) ==
    /\ \E n \in 1..issued[a] : expiring' = expiring \cup {<<a, n>>}
    /\ UNCHANGED <<channel, credentials, refreshLock, channelLock, run, server, interrupted>>

-----------------------------------------------------------------------------
Init ==
    /\ channel = [authorizations |-> [a \in AuthorizationIds |-> None],
                  owner |-> [x \in Accounts |-> None], cover |-> [v \in Advertisers |-> {}]]
    /\ credentials = [a \in AuthorizationIds |-> [n \in Tokens |-> None]]
    /\ refreshLock = [a \in AuthorizationIds |-> None] /\ channelLock = None
    /\ run = [r \in Runs |-> Fresh]
    /\ issued = [a \in AuthorizationIds |-> 0] /\ valid = [a \in AuthorizationIds |-> 0]
    /\ expiring = {} /\ inflight = {} /\ interrupted = {}

RunStep(r) == Lock(r) \/ Decide(r) \/ Write(r) \/ Load(r) \/ Activate(r) \/ Discover(r) \/ Record(r)

Next ==
    \/ \E r \in Runs : Start(r) \/ RunStep(r) \/ Stop(r)
    \/ \E q \in inflight : Land(q)
    \/ \E a \in AuthorizationIds : Age(a)

Spec == Init /\ [][Next]_vars

-----------------------------------------------------------------------------
(* Properties                                                              *)

(* Every variable keeps its type.                                          *)
TypeOK ==
    /\ channel \in Channels
    /\ credentials \in [AuthorizationIds -> [Tokens -> Credentials \cup {None}]]
    /\ refreshLock \in [AuthorizationIds -> Runs \cup {None}] /\ channelLock \in Runs \cup {None}
    /\ run \in [Runs -> [pc : Pcs, id : AuthorizationIds \cup {None}, advertiser : Advertisers \cup {None},
                         seen : Tokens \cup {0}, revision : Tokens \cup {0}, token : Credentials \cup {None},
                         accounts : SUBSET Accounts, file : Channels \cup {None}]]
    /\ issued \in [AuthorizationIds -> 0..MaxTokens] /\ valid \in [AuthorizationIds -> 0..MaxTokens]
    /\ expiring \subseteq AuthorizationIds \X Tokens /\ inflight \subseteq Requests
    /\ interrupted \subseteq AuthorizationIds

Active(a) == credentials[a][channel.authorizations[a].revision]

(* The revision the state file names is always in the credential store,    *)
(* whatever dies or fails in between; and when nobody is refreshing it, its *)
(* refresh token is the one the server takes, unless a refresh was cut off  *)
(* after its request: overlapping refreshes leave no spent token behind.    *)
ActiveTokenIsCurrent ==
    \A a \in Known(channel.authorizations) :
        /\ Active(a) # None
        /\ (a \notin interrupted /\ refreshLock[a] = None) => Active(a).refresh = valid[a]

(* However many processes want a token, only one of them refreshes it at a *)
(* time, and with the refresh token the server takes, unless an earlier    *)
(* refresh was cut off: architecture.md calls refreshes single-flight.     *)
RefreshIsSingleFlight ==
    [][\A q \in inflight' \ inflight : q.id \notin interrupted =>
          /\ q.refresh = valid[q.id]
          /\ \A r \in Runs \ {q.run} : ~(Refreshing(r) /\ run[r].id = q.id)]_vars

(* Every variable keeps its type, and the indexes agree with the           *)
(* authorizations they index.                                              *)
IndexesAgree ==
    LET auths == channel.authorizations IN
    /\ TypeOK
    /\ \A x \in Accounts : {a \in Known(auths) : x \in auths[a].accounts}
                            = {channel.owner[x]} \ {None}
    /\ \A v \in Advertisers : channel.cover[v] = {a \in Known(auths) : v \in Covered(auths, a)}

(* A token revision is never lost from the state file again, nor is an     *)
(* authorization: updates of other authorizations and account syncs keep   *)
(* what a refresh has put there.                                           *)
RevisionsOnlyGrow ==
    [][\A a \in Known(channel.authorizations) :
          /\ channel'.authorizations[a] # None
          /\ channel'.authorizations[a].revision >= channel.authorizations[a].revision]_vars

(* An account passes from one authorization to another only by a run that  *)
(* was told to rebind it.                                                  *)
AccountsMoveOnRebind ==
    [][\A x \in Accounts :
          (channel.owner[x] # None /\ channel'.owner[x] \notin {None, channel.owner[x]}) =>
              \E r \in Rebind : run[r].pc = "recording" /\ run[r].id = channel'.owner[x]]_vars

(* No command's update of the state file undoes what another put there.    *)
NothingIsUndone == RevisionsOnlyGrow /\ AccountsMoveOnRebind
=============================================================================
