---------------------------- MODULE AccountReport ----------------------------
(***************************************************************************)
(* The spend report over the managed accounts: one goroutine per account,  *)
(* at most Limit of them with a slot; each takes a token lease and queries *)
(* its channel.  The command may be cancelled at any time.                 *)
(***************************************************************************)
EXTENDS Integers, FiniteSets, FiniteSetsExt

CONSTANTS
    Accounts,   \* managed accounts
    Marketing,  \* those of the Marketing channel; the others are Qianchuan's
    Enabled,
    Spend,      \* what the channel reports for each account
    Concurrency

ASSUME AccountReportAssumption ==
    /\ IsFiniteSet(Accounts) /\ Marketing \subseteq Accounts /\ Enabled \subseteq Accounts
    /\ Spend \in [Accounts -> Nat] /\ Concurrency \in 1..8

Channels == {"marketing", "qianchuan"}
Channel(a) == IF a \in Marketing THEN "marketing" ELSE "qianchuan"

VARIABLES
    selected,   \* accounts of the report, {} before it starts
    task,       \* each goroutine: waiting, running, leased, ok, failed
    holders,    \* goroutines with a slot of the semaphore
    cancelled,
    result      \* the answer, or "none"

NoResult == [state |-> "none", ok |-> FALSE, rows |-> << >>, summary |-> << >>]
reportVars == <<selected, task, holders, cancelled, result>>

ReportInit ==
    /\ selected = {} /\ task = [a \in Accounts |-> "none"] /\ holders = {}
    /\ cancelled = FALSE /\ result = NoResult

(* selectAccounts: of the channels asked for, enabled unless all are asked. *)
SelectAccounts(channels, includeDisabled) ==
    {a \in Accounts : Channel(a) \in channels /\ (includeDisabled \/ a \in Enabled)}

Report ==
    /\ selected = {} /\ result.state = "none"
    /\ \E channels \in SUBSET Channels \ {{}}, includeDisabled \in BOOLEAN :
          LET accounts == SelectAccounts(channels, includeDisabled)
          IN IF accounts = {}
             THEN result' = [NoResult EXCEPT !.state = "refused"] /\ UNCHANGED <<selected, task>>
             ELSE /\ selected' = accounts
                  /\ task' = [a \in Accounts |-> IF a \in accounts THEN "waiting" ELSE "none"]
                  /\ UNCHANGED result
    /\ UNCHANGED <<holders, cancelled>>

Limit == Min({Concurrency, Cardinality(selected)})

Acquire(a) ==
    /\ task[a] = "waiting" /\ Cardinality(holders) < Limit
    /\ task' = [task EXCEPT ![a] = "running"]
    /\ holders' = holders \cup {a}
    /\ UNCHANGED <<selected, cancelled, result>>

(* Both cases of the select may be ready: a cancelled command may still    *)
(* give an account its slot.                                               *)
GiveUp(a) ==
    /\ task[a] = "waiting" /\ cancelled
    /\ task' = [task EXCEPT ![a] = "failed"]
    /\ UNCHANGED <<selected, holders, cancelled, result>>

(* The slot is given back however the query ends.                          *)
Release(a, outcome) == holders \ {a}

EndTask(a, outcome) ==
    /\ task' = [task EXCEPT ![a] = outcome]
    /\ holders' = Release(a, outcome)
    /\ UNCHANGED <<selected, cancelled, result>>

(* queryAccount: the lease of the account's own authorization, then the    *)
(* report of its channel.                                                  *)
Lease(a) ==
    /\ task[a] = "running"
    /\ \/ /\ ~cancelled
          /\ task' = [task EXCEPT ![a] = "leased"] /\ UNCHANGED <<selected, holders, cancelled, result>>
       \/ EndTask(a, "failed")

QueryAccount(a) ==
    /\ task[a] = "leased"
    /\ \E outcome \in {"ok", "failed"} : EndTask(a, outcome)

Cancel ==
    /\ selected # {} /\ result.state = "none" /\ ~cancelled
    /\ cancelled' = TRUE
    /\ UNCHANGED <<selected, task, holders, result>>

Successful == {a \in selected : task[a] = "ok"}
Total(accounts) == MapThenSumSet(LAMBDA a : Spend[a], accounts)

(* Mutant: the GMV of both channels is added up.                           *)
AllGMV == Successful

(* The GMV of two channels is never added up: it is not the same metric.   *)
ComparableGMV == IF Cardinality({Channel(a) : a \in Successful}) <= 1 THEN Successful ELSE {}

BuildAccountReportSummary ==
    [accounts |-> Cardinality(selected), successful |-> Cardinality(Successful),
     spend |-> Total(Successful), gmv |-> ComparableGMV]

Summarize ==
    /\ selected # {} /\ result.state = "none"
    /\ \A a \in selected : task[a] \in {"ok", "failed"}
    /\ result' = [state |-> "done", ok |-> \A a \in selected : task[a] = "ok",
                  rows |-> [a \in selected |-> task[a]], summary |-> BuildAccountReportSummary]
    /\ UNCHANGED <<selected, task, holders, cancelled>>

Task(a) == Acquire(a) \/ GiveUp(a) \/ Lease(a) \/ QueryAccount(a)
ReportNext == Report \/ Cancel \/ Summarize \/ \E a \in Accounts : Task(a)

-----------------------------------------------------------------------------
(* Properties                                                              *)

(* One account's failure, or a cancelled command, takes nothing from the   *)
(* others: every selected account has its row, the totals are those of the *)
(* accounts that answered and never mix channels, and no more than Limit   *)
(* queries run at once.                                                    *)
ReportIsHonest ==
    /\ Cardinality(holders) <= Concurrency
    /\ result.state = "done"
       => LET answered == {a \in selected : result.rows[a] = "ok"}
          IN /\ DOMAIN result.rows = selected
             /\ result.ok <=> answered = selected
             /\ result.summary.spend = Total(answered)
             /\ result.summary.gmv \subseteq Marketing \/ result.summary.gmv \cap Marketing = {}
=============================================================================
