----------------------------- MODULE PlanSettings -----------------------------
(***************************************************************************)
(* The commands that change settings of existing objects: status, budget,  *)
(* bid and ROI goal of Marketing projects and promotions, status, budget   *)
(* and ROI goal of Qianchuan plans.  A command leases a token, takes the   *)
(* advertiser's lock, sends ONE request for all its objects, whatever      *)
(* becomes of it, and reports of every object what the platform says       *)
(* afterwards.  Marketing reads all objects back in one walk, Qianchuan    *)
(* plan by plan.  Meanwhile somebody works in the platform's own console.  *)
(***************************************************************************)
EXTENDS Integers, FiniteSets

CONSTANTS
    Objects,           \* projects, promotions or plans of one advertiser
    SettingCommands,   \* command invocations, of one or several processes
    Amounts,           \* budgets, bids or ROI goals
    MaxConsoleChanges, \* bound: changes somebody makes in the console
    Nothing

OptStatuses == {"ENABLE", "DISABLE", "DELETE"}

ASSUME SettingsAssumption ==
    /\ Amounts # {} /\ Amounts \cap OptStatuses = {} /\ Nothing \notin Amounts \cup OptStatuses
    /\ MaxConsoleChanges \in Nat

Kinds == {"status", "amount"}   \* amount stands for budget, bid and ROI goal
Target == [status |-> OptStatuses, amount |-> Amounts]

VARIABLES
    channel,    \* the channel of this behaviour: the two share nothing
    official,   \* what the platform says of each object, for each kind
    settingLock,
    command,    \* each invocation
    touched,    \* history: (kind, object) pairs changed in the console since a command sent its request
    claimed,    \* history: what the last report of success said of a pair, until it is changed again
    consoleChanges

settingVars == <<channel, official, settingLock, command, touched, claimed, consoleChanges>>

SettingPairs == Kinds \X Objects
NoCommand == [pc |-> "idle", kind |-> "status", ids |-> {}, target |-> Nothing, receipt |-> "none",
              refused |-> {}, unread |-> {}, rows |-> << >>]
Over == [NoCommand EXCEPT !.pc = "ended"]
Running(c) == command[c].pc \in {"locked", "sent", "reported"}
Became(c, new) == command' = [command EXCEPT ![c] = new]

SettingsInit ==
    /\ channel \in {"marketing", "qianchuan"}
    /\ official = [kind \in Kinds |-> [o \in Objects |-> CHOOSE t \in Target[kind] : t # "DELETE"]]
    /\ settingLock = {} /\ command = [c \in SettingCommands |-> NoCommand]
    /\ touched = [c \in SettingCommands |-> {}] /\ claimed = [p \in SettingPairs |-> Nothing]
    /\ consoleChanges = 0

-----------------------------------------------------------------------------
(* The request                                                             *)

(* Amounts are compared as rationals, "1.50" and "1.5" are the same.       *)
NormalizeMutation(kind, target, confirmed) == target \in Target[kind] \ {"DELETE"} /\ ~confirmed
NormalizeQianchuanMutation(kind, target, submit, confirmed) ==
    /\ target \in Target[kind]
    /\ target = "DELETE" /\ submit => confirmed
    /\ confirmed => target = "DELETE"

Normalized(kind, target, submit, confirmed) ==
    CASE channel = "marketing" -> NormalizeMutation(kind, target, confirmed)
      [] channel = "qianchuan" -> NormalizeQianchuanMutation(kind, target, submit, confirmed)

(* A command that is refused or only previews ends at once.                *)
ExecuteSettings(c) ==
    /\ command[c].pc = "idle"
    /\ \E kind \in Kinds, ids \in SUBSET Objects \ {{}}, submit, confirmed \in BOOLEAN :
         \E target \in Target[kind] :
            Became(c, IF submit /\ Normalized(kind, target, submit, confirmed)
                      THEN [NoCommand EXCEPT !.pc = "asked", !.kind = kind, !.ids = ids, !.target = target]
                      ELSE Over)
    /\ UNCHANGED <<channel, official, settingLock, touched, claimed, consoleChanges>>

(* No token, or the lock cannot be had in time: nothing was sent.          *)
GiveUpSettings(c) ==
    /\ command[c].pc = "asked"
    /\ Became(c, Over)
    /\ UNCHANGED <<channel, official, settingLock, touched, claimed, consoleChanges>>

(* Mutant: Qianchuan settings have no lock of their own.                   *)
FamilyFree == channel = "qianchuan" \/ settingLock = {}

(* The lock of the settings, taken with a token; Qianchuan's is that of the work commands too. *)
AdvertiserLockFree == settingLock = {}

AcquireAdvertiserLock(c) ==
    /\ command[c].pc = "asked" /\ AdvertiserLockFree
    /\ settingLock' = settingLock \cup {c}
    /\ Became(c, [command[c] EXCEPT !.pc = "locked"])
    /\ UNCHANGED <<channel, official, touched, claimed, consoleChanges>>

-----------------------------------------------------------------------------
(* The write                                                               *)

ReportAll(c, row) == [command[c] EXCEPT !.pc = "reported", !.rows = [o \in command[c].ids |-> row]]

NotSent(c) ==
    /\ command[c].pc = "locked"
    /\ Became(c, [ReportAll(c, "failed") EXCEPT !.receipt = "not_sent"])
    /\ UNCHANGED <<channel, official, settingLock, touched, claimed, consoleChanges>>

(* What an answer may be: row errors name the objects that were not        *)
(* changed.  An answer without all rows of a Qianchuan request, and no     *)
(* answer, leave open what was changed, and so does an answer that only    *)
(* says the request failed.                                                *)
FinishMarketingWrite(ids, applied) ==
    {[receipt |-> "ok", refused |-> ids \ applied],
     [receipt |-> "rejected", refused |-> {}], [receipt |-> "unknown", refused |-> {}]}
FinishQianchuanWrite(ids, applied) ==
    {[receipt |-> IF applied = ids THEN "ok" ELSE "rejected", refused |-> ids \ applied],
     [receipt |-> "rejected", refused |-> {}], [receipt |-> "unknown", refused |-> {}]}
Answers(ids, applied) ==
    CASE channel = "marketing" -> FinishMarketingWrite(ids, applied)
      [] channel = "qianchuan" -> FinishQianchuanWrite(ids, applied)

(* One request for all objects; applied are those the platform changes.    *)
ApplyMutation(kind, applied, target) ==
    [official EXCEPT ![kind] = [o \in Objects |-> IF o \in applied THEN target ELSE @[o]]]

DispatchSettings(c) ==
    /\ command[c].pc = "locked"
    /\ LET kind == command[c].kind ids == command[c].ids target == command[c].target
       IN \E applied \in SUBSET ids : \E answer \in Answers(ids, applied) :
            /\ official' = ApplyMutation(kind, applied, target)
            /\ Became(c, [command[c] EXCEPT !.pc = "sent", !.receipt = answer.receipt,
                                            !.refused = answer.refused, !.unread = ids])
            /\ claimed' = [p \in SettingPairs |-> IF p \in {kind} \X ids THEN Nothing ELSE claimed[p]]
    /\ touched' = [touched EXCEPT ![c] = {}]
    /\ UNCHANGED <<channel, settingLock, consoleChanges>>

-----------------------------------------------------------------------------
(* Reading back                                                            *)

(* Row errors of a Qianchuan request are rows of their own; any other      *)
(* answer with an error fails every row.                                   *)
AnswerFails(c, o) ==
    \/ o \in command[c].refused
    \/ command[c].receipt = "rejected" /\ (channel = "marketing" \/ command[c].refused = {})

ReadBackRow(c, o, observed) ==
    IF AnswerFails(c, o) \/ observed # command[c].target THEN "failed"
    ELSE IF command[c].receipt = "unknown" THEN "reconciled" ELSE "completed"

(* A project or promotion that was deleted is not listed any more.         *)
ReadMutation(kind, o) ==
    IF official["status"][o] = "DELETE" THEN Nothing ELSE official[kind][o]
FetchPlanDetail(kind, o) == official[kind][o]

(* One walk for all objects; if it fails, every row fails.                 *)
ReadBackMarketing(c) ==
    /\ channel = "marketing" /\ command[c].pc = "sent"
    /\ \/ Became(c, [ReportAll(c, "failed") EXCEPT !.unread = {}])
       \/ Became(c, [command[c] EXCEPT !.pc = "reported", !.unread = {},
                        !.rows = [o \in command[c].ids |-> ReadBackRow(c, o, ReadMutation(command[c].kind, o))]])
    /\ UNCHANGED <<channel, official, settingLock, touched, claimed, consoleChanges>>

(* One plan after the other; one that cannot be read fails its own row.    *)
ReadBackQianchuan(c) ==
    /\ channel = "qianchuan" /\ command[c].pc = "sent"
    /\ \E o \in command[c].unread :
         \E row \in {"failed", ReadBackRow(c, o, FetchPlanDetail(command[c].kind, o))} :
            Became(c, [command[c] EXCEPT !.unread = @ \ {o},
                          !.pc = IF command[c].unread = {o} THEN "reported" ELSE "sent",
                          !.rows = [p \in DOMAIN @ \cup {o} |-> IF p = o THEN row ELSE @[p]]])
    /\ UNCHANGED <<channel, official, settingLock, touched, claimed, consoleChanges>>

(* The report is returned and the lock given back.                         *)
Succeeded(c) == {o \in DOMAIN command[c].rows : command[c].rows[o] # "failed"}
ReturnSettings(c) ==
    /\ command[c].pc = "reported"
    /\ LET kind == command[c].kind
           sure == ({kind} \X Succeeded(c)) \ touched[c]
       IN claimed' = [p \in SettingPairs |-> IF p \in sure THEN command[c].target ELSE claimed[p]]
    /\ settingLock' = settingLock \ {c}
    /\ touched' = [touched EXCEPT ![c] = {}]
    /\ Became(c, Over)
    /\ UNCHANGED <<channel, official, consoleChanges>>

(* A process dies: the system frees its lock.                              *)
SettingsCrash(c) ==
    /\ Running(c)
    /\ settingLock' = settingLock \ {c}
    /\ touched' = [touched EXCEPT ![c] = {}]
    /\ Became(c, Over)
    /\ UNCHANGED <<channel, official, claimed, consoleChanges>>

(* Somebody works in the console; a request that lands after its sender    *)
(* gave up waiting, or died, looks the same to everyone else.              *)
ConsoleChange ==
    /\ consoleChanges < MaxConsoleChanges
    /\ \E kind \in Kinds, o \in Objects : \E t \in Target[kind] \ {official[kind][o]} :
          /\ official' = [official EXCEPT ![kind][o] = t]
          /\ touched' = [c \in SettingCommands |-> IF command[c].pc \in {"sent", "reported"}
                                                  THEN touched[c] \cup {<<kind, o>>} ELSE touched[c]]
          /\ claimed' = [claimed EXCEPT ![<<kind, o>>] = Nothing]
    /\ consoleChanges' = consoleChanges + 1
    /\ UNCHANGED <<channel, settingLock, command>>

SettingStep(c) ==
    \/ ExecuteSettings(c) \/ GiveUpSettings(c) \/ AcquireAdvertiserLock(c)
    \/ NotSent(c) \/ DispatchSettings(c) \/ ReadBackMarketing(c) \/ ReadBackQianchuan(c)
    \/ ReturnSettings(c) \/ SettingsCrash(c)
SettingsNext == ConsoleChange \/ \E c \in SettingCommands : SettingStep(c)
SettingsSpec == SettingsInit /\ [][SettingsNext]_settingVars

-----------------------------------------------------------------------------
(* Properties                                                              *)

(* A row reported as completed or reconciled says what the platform says:  *)
(* no other command has changed the object behind the report, and only a   *)
(* later command or somebody in the console makes it untrue.               *)
ReportedSettingHolds ==
    \A p \in SettingPairs : claimed[p] # Nothing => official[p[1]][p[2]] = claimed[p]
=============================================================================
