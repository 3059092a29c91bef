---------------------------- MODULE CommandProofs ----------------------------
(***************************************************************************)
(* Proofs about the components that MCCommands checks and that share no    *)
(* state: the settings commands, the read pool, the authorization store,   *)
(* the spend report, the verification of works and the owner file, and the *)
(* queries with their tools.                                               *)
(***************************************************************************)
EXTENDS PlanSettings, WorkVerification, ReadPool, AuthorizationStore, AccountReport, QueryTools,
        FiniteSetTheorems, TLAPS

-----------------------------------------------------------------------------
(***************************************************************************)
(* PlanSettings: what a settings command reports of an object is what the  *)
(* platform says, for any objects, commands, amounts and console changes.  *)
(***************************************************************************)

SettingPcs == {"idle", "asked", "locked", "sent", "reported", "ended"}
Targets == OptStatuses \cup Amounts
Invocation(rows) ==
    [pc : SettingPcs, kind : Kinds, ids : SUBSET Objects, target : Targets \cup {Nothing},
     receipt : {"none", "not_sent", "ok", "rejected", "unknown"},
     refused : SUBSET Objects, unread : SUBSET Objects, rows : rows]

SettingTypes ==
    /\ channel \in {"marketing", "qianchuan"}
    /\ official \in [Kinds -> [Objects -> Targets]]
    /\ settingLock \subseteq SettingCommands
    /\ DOMAIN command = SettingCommands
    /\ \A c \in SettingCommands : command[c] \in Invocation({command[c].rows})
    /\ touched \in [SettingCommands -> SUBSET SettingPairs]
    /\ claimed \in [SettingPairs -> Targets \cup {Nothing}]

(* At most one command is under way, and it holds the lock.                *)
OneSettingCommand ==
    /\ \A c, d \in settingLock : c = d
    /\ \A c \in SettingCommands : Running(c) => c \in settingLock

(* A row that tells of success is true until somebody else changes the     *)
(* object: no other command can, while the lock is held.                   *)
RowHolds(c, o) ==
    command[c].rows[o] # "failed" /\ <<command[c].kind, o>> \notin touched[c]
    => official[command[c].kind][o] = command[c].target
RowsHold ==
    \A c \in SettingCommands :
        /\ command[c].pc \in {"idle", "asked", "locked"} => command[c].rows = << >>
        /\ command[c].pc \in {"asked", "locked", "sent", "reported"} => command[c].target \in Targets
        /\ Running(c) => /\ DOMAIN command[c].rows \subseteq Objects
                         /\ \A o \in DOMAIN command[c].rows : RowHolds(c, o)

SettingsInv == SettingTypes /\ OneSettingCommand /\ RowsHold /\ ReportedSettingHolds

-----------------------------------------------------------------------------
LEMMA SettingsInitially == SettingsInit => SettingsInv
<1> SUFFICES ASSUME SettingsInit PROVE SettingsInv
  OBVIOUS
<1>1. \A kind \in Kinds : (CHOOSE t \in Target[kind] : t # "DELETE") \in Targets
  <2>1. "ENABLE" \in Target["status"] /\ "ENABLE" # "DELETE" /\ Target["status"] \subseteq Targets
    BY DEF Target, OptStatuses, Targets
  <2>2. PICK a \in Amounts : TRUE
    BY SettingsAssumption
  <2>3. a \in Target["amount"] /\ a # "DELETE" /\ Target["amount"] \subseteq Targets
    BY SettingsAssumption DEF Target, OptStatuses, Targets
  <2>4. (CHOOSE t \in Target["status"] : t # "DELETE") \in Target["status"]
    BY <2>1
  <2>5. (CHOOSE t \in Target["amount"] : t # "DELETE") \in Target["amount"]
    BY <2>3
  <2> QED BY <2>1, <2>3, <2>4, <2>5 DEF Kinds
<1>2. official \in [Kinds -> [Objects -> Targets]]
  BY <1>1 DEF SettingsInit
<1>3. \A c \in SettingCommands : command[c] = NoCommand
  BY DEF SettingsInit
<1>4. NoCommand \in Invocation({NoCommand.rows}) /\ NoCommand.pc = "idle" /\ NoCommand.rows = << >>
  BY DEF NoCommand, Invocation, SettingPcs, Kinds
<1>5. SettingTypes
  BY <1>2, <1>3, <1>4 DEF SettingsInit, SettingTypes
<1>6. OneSettingCommand
  BY <1>3, <1>4 DEF SettingsInit, OneSettingCommand, Running
<1>7. RowsHold
  BY <1>3, <1>4 DEF RowsHold, Running
<1>8. ReportedSettingHolds
  BY DEF SettingsInit, ReportedSettingHolds
<1> QED BY <1>5, <1>6, <1>7, <1>8 DEF SettingsInv

(* A step that only takes one command further: what is left to show is     *)
(* about that command.                                                     *)
LEMMA CommandMoves ==
    ASSUME SettingsInv, NEW c \in SettingCommands, NEW new, Became(c, new),
           new \in Invocation({new.rows}),
           UNCHANGED <<channel, official, touched, claimed>>,
           settingLock' = settingLock
              \/ (settingLock = {} /\ settingLock' = settingLock \cup {c}),
           new.pc \in {"locked", "sent", "reported"} => c \in settingLock',
           new.pc \in {"idle", "asked", "locked"} => new.rows = << >>,
           new.pc \in {"asked", "locked", "sent", "reported"} => new.target \in Targets,
           new.pc \in {"locked", "sent", "reported"}
              => /\ DOMAIN new.rows \subseteq Objects
                 /\ \A o \in DOMAIN new.rows :
                       new.rows[o] # "failed" /\ <<new.kind, o>> \notin touched[c]
                       => official[new.kind][o] = new.target
    PROVE  SettingsInv'
<1>1. command'[c] = new /\ \A d \in SettingCommands \ {c} : command'[d] = command[d]
  BY DEF Became, SettingsInv, SettingTypes
<1>2. SettingTypes'
  BY <1>1 DEF Became, SettingsInv, SettingTypes
<1>3. OneSettingCommand'
  BY <1>1 DEF SettingsInv, OneSettingCommand, Running
<1>4. RowsHold'
  <2> SUFFICES ASSUME NEW d \in SettingCommands
               PROVE  /\ command'[d].pc \in {"idle", "asked", "locked"} => command'[d].rows = << >>
                      /\ command'[d].pc \in {"asked", "locked", "sent", "reported"} => command'[d].target \in Targets
                      /\ Running(d)' => /\ DOMAIN command'[d].rows \subseteq Objects
                                        /\ \A o \in DOMAIN command'[d].rows : RowHolds(d, o)'
    BY DEF RowsHold
  <2>1. CASE d = c
    BY <2>1, <1>1 DEF Running, RowHolds
  <2>2. CASE d # c
    <3>1. command'[d] = command[d]
      BY <1>1, <2>2
    <3> QED BY <3>1 DEF SettingsInv, RowsHold, Running, RowHolds
  <2> QED BY <2>1, <2>2
<1>5. ReportedSettingHolds'
  BY DEF SettingsInv, ReportedSettingHolds
<1> QED BY <1>2, <1>3, <1>4, <1>5 DEF SettingsInv

(* A command that is over, its lock with it, leaves nothing to show.       *)
LEMMA CommandEnds ==
    ASSUME SettingsInv, NEW c \in SettingCommands, Became(c, Over),
           UNCHANGED <<channel, official>>, settingLock' = settingLock \ {c},
           touched' = [touched EXCEPT ![c] = {}],
           claimed' \in [SettingPairs -> Targets \cup {Nothing}], ReportedSettingHolds'
    PROVE  SettingsInv'
<1>1. command'[c] = Over /\ \A d \in SettingCommands \ {c} : command'[d] = command[d]
  BY DEF Became, SettingsInv, SettingTypes
<1>2. Over \in Invocation({Over.rows}) /\ Over.pc = "ended"
  BY DEF Over, NoCommand, Invocation, SettingPcs, Kinds
<1>3. SettingTypes'
  BY <1>1, <1>2 DEF Became, SettingsInv, SettingTypes
<1>4. OneSettingCommand'
  BY <1>1, <1>2 DEF SettingsInv, OneSettingCommand, Running
<1>5. RowsHold'
  <2> SUFFICES ASSUME NEW d \in SettingCommands
               PROVE  /\ command'[d].pc \in {"idle", "asked", "locked"} => command'[d].rows = << >>
                      /\ command'[d].pc \in {"asked", "locked", "sent", "reported"} => command'[d].target \in Targets
                      /\ Running(d)' => /\ DOMAIN command'[d].rows \subseteq Objects
                                        /\ \A o \in DOMAIN command'[d].rows : RowHolds(d, o)'
    BY DEF RowsHold
  <2>1. CASE d = c
    BY <2>1, <1>1, <1>2 DEF Running
  <2>2. CASE d # c
    <3>1. command'[d] = command[d] /\ touched'[d] = touched[d]
      BY <1>1, <2>2 DEF SettingsInv, SettingTypes
    <3> QED BY <3>1 DEF SettingsInv, RowsHold, Running, RowHolds
  <2> QED BY <2>1, <2>2
<1> QED BY <1>3, <1>4, <1>5 DEF SettingsInv

LEMMA RowsAreTrue ==
    ASSUME NEW c, NEW o, NEW kind, NEW row, command[c].target \in Targets,
           row \in {"failed", ReadBackRow(c, o, ReadMutation(kind, o)),
                    ReadBackRow(c, o, FetchPlanDetail(kind, o))},
           row # "failed"
    PROVE  official[kind][o] = command[c].target
<1>1. Nothing \notin Targets
  BY SettingsAssumption DEF Targets
<1> QED BY <1>1 DEF ReadBackRow, ReadMutation, FetchPlanDetail

-----------------------------------------------------------------------------
LEMMA ExecuteKeeps ==
    ASSUME SettingsInv, NEW c \in SettingCommands, ExecuteSettings(c) PROVE SettingsInv'
<1>1. PICK kind \in Kinds, ids \in SUBSET Objects \ {{}}, submit \in BOOLEAN, confirmed \in BOOLEAN :
        \E target \in Target[kind] :
        Became(c, IF submit /\ Normalized(kind, target, submit, confirmed)
                  THEN [NoCommand EXCEPT !.pc = "asked", !.kind = kind, !.ids = ids, !.target = target]
                  ELSE Over)
  BY DEF ExecuteSettings
<1>2. PICK target \in Target[kind] :
        Became(c, IF submit /\ Normalized(kind, target, submit, confirmed)
                  THEN [NoCommand EXCEPT !.pc = "asked", !.kind = kind, !.ids = ids, !.target = target]
                  ELSE Over)
  BY <1>1
<1>3. target \in Targets
  BY DEF Target, Targets, Kinds
<1> DEFINE asked == [NoCommand EXCEPT !.pc = "asked", !.kind = kind, !.ids = ids, !.target = target]
<1>4. asked \in Invocation({asked.rows}) /\ asked.pc = "asked" /\ asked.rows = << >> /\ asked.target \in Targets
  BY <1>3 DEF NoCommand, Invocation, SettingPcs, Kinds
<1>5. Over \in Invocation({Over.rows}) /\ Over.pc = "ended"
  BY DEF Over, NoCommand, Invocation, SettingPcs, Kinds
<1>6. UNCHANGED <<channel, official, settingLock, touched, claimed>>
  BY DEF ExecuteSettings
<1>7. Became(c, asked) \/ Became(c, Over)
  BY <1>2
<1> HIDE DEF asked
<1>8. CASE Became(c, asked)
  BY <1>4, <1>6, <1>8, CommandMoves
<1>9. CASE Became(c, Over)
  BY <1>5, <1>6, <1>9, CommandMoves
<1> QED BY <1>7, <1>8, <1>9

LEMMA GiveUpKeeps ==
    ASSUME SettingsInv, NEW c \in SettingCommands, GiveUpSettings(c) PROVE SettingsInv'
<1>1. Over \in Invocation({Over.rows}) /\ Over.pc = "ended"
  BY DEF Over, NoCommand, Invocation, SettingPcs, Kinds
<1> QED BY <1>1, CommandMoves DEF GiveUpSettings

LEMMA AcquireKeeps ==
    ASSUME SettingsInv, NEW c \in SettingCommands, AcquireAdvertiserLock(c) PROVE SettingsInv'
<1> DEFINE new == [command[c] EXCEPT !.pc = "locked"]
<1>1. command[c] \in Invocation({command[c].rows}) /\ command[c].pc = "asked"
      /\ command[c].rows = << >> /\ command[c].target \in Targets
  BY DEF SettingsInv, SettingTypes, RowsHold, AcquireAdvertiserLock
<1>2. new \in Invocation({new.rows}) /\ new.pc = "locked" /\ new.rows = << >> /\ new.target \in Targets
  BY <1>1 DEF Invocation, SettingPcs
<1>3. Became(c, new) /\ settingLock = {} /\ settingLock' = settingLock \cup {c}
      /\ UNCHANGED <<channel, official, touched, claimed>>
  BY DEF AcquireAdvertiserLock, AdvertiserLockFree
<1>4. DOMAIN new.rows = {}
  BY <1>2
<1> HIDE DEF new
<1> QED BY <1>2, <1>3, <1>4, CommandMoves

(* The request: only the one command that holds the lock is under way.     *)
LEMMA DispatchKeeps ==
    ASSUME SettingsInv, NEW c \in SettingCommands, DispatchSettings(c) PROVE SettingsInv'
<1> DEFINE kind == command[c].kind ids == command[c].ids target == command[c].target
<1>1. command[c] \in Invocation({command[c].rows}) /\ command[c].pc = "locked"
      /\ command[c].rows = << >> /\ target \in Targets /\ kind \in Kinds /\ ids \in SUBSET Objects
  BY DEF SettingsInv, SettingTypes, RowsHold, DispatchSettings, Invocation
<1>2. PICK applied \in SUBSET ids : \E answer \in Answers(ids, applied) :
        /\ official' = ApplyMutation(kind, applied, target)
        /\ Became(c, [command[c] EXCEPT !.pc = "sent", !.receipt = answer.receipt,
                                        !.refused = answer.refused, !.unread = ids])
        /\ claimed' = [p \in SettingPairs |-> IF p \in {kind} \X ids THEN Nothing ELSE claimed[p]]
  BY DEF DispatchSettings
<1>3. PICK answer \in Answers(ids, applied) :
        /\ official' = ApplyMutation(kind, applied, target)
        /\ Became(c, [command[c] EXCEPT !.pc = "sent", !.receipt = answer.receipt,
                                        !.refused = answer.refused, !.unread = ids])
        /\ claimed' = [p \in SettingPairs |-> IF p \in {kind} \X ids THEN Nothing ELSE claimed[p]]
  BY <1>2
<1>4. /\ touched' = [touched EXCEPT ![c] = {}]
      /\ UNCHANGED <<channel, settingLock>>
  BY DEF DispatchSettings
<1>5. answer.receipt \in {"ok", "rejected", "unknown"} /\ answer.refused \in SUBSET Objects
  <2>1. answer \in FinishMarketingWrite(ids, applied) \cup FinishQianchuanWrite(ids, applied)
    BY DEF Answers, SettingsInv, SettingTypes
  <2>2. ids \ applied \in SUBSET Objects /\ {} \in SUBSET Objects
    BY <1>1
  <2> QED BY <2>1, <2>2 DEF FinishMarketingWrite, FinishQianchuanWrite
<1> DEFINE new == [command[c] EXCEPT !.pc = "sent", !.receipt = answer.receipt,
                                     !.refused = answer.refused, !.unread = ids]
<1>6. new \in Invocation({new.rows}) /\ new.pc = "sent" /\ new.rows = << >> /\ new.target \in Targets
  BY <1>1, <1>5 DEF Invocation, SettingPcs
<1>7. Became(c, new)
  BY <1>3
<1>8. \A k \in Kinds, o \in Objects :
        official'[k][o] = IF k = kind /\ o \in applied THEN target ELSE official[k][o]
  BY <1>1, <1>3 DEF ApplyMutation, SettingsInv, SettingTypes
<1>9. official' \in [Kinds -> [Objects -> Targets]]
  BY <1>1, <1>3 DEF ApplyMutation, SettingsInv, SettingTypes
<1>10. claimed' \in [SettingPairs -> Targets \cup {Nothing}]
  BY <1>3 DEF SettingsInv, SettingTypes
<1> HIDE DEF new, kind, ids, target
<1>11. command'[c] = new /\ \A d \in SettingCommands \ {c} : command'[d] = command[d]
  BY <1>7 DEF Became, SettingsInv, SettingTypes
<1>12. SettingTypes'
  BY <1>4, <1>6, <1>7, <1>9, <1>10, <1>11 DEF Became, SettingsInv, SettingTypes
<1>13. c \in settingLock /\ \A d \in SettingCommands \ {c} : ~Running(d)
  BY <1>1 DEF SettingsInv, OneSettingCommand, Running
<1>14. OneSettingCommand'
  BY <1>4, <1>11, <1>13 DEF SettingsInv, OneSettingCommand, Running
<1>15. RowsHold'
  <2> SUFFICES ASSUME NEW d \in SettingCommands
               PROVE  /\ command'[d].pc \in {"idle", "asked", "locked"} => command'[d].rows = << >>
                      /\ command'[d].pc \in {"asked", "locked", "sent", "reported"} => command'[d].target \in Targets
                      /\ Running(d)' => /\ DOMAIN command'[d].rows \subseteq Objects
                                        /\ \A o \in DOMAIN command'[d].rows : RowHolds(d, o)'
    BY DEF RowsHold
  <2>1. CASE d = c
    <3>1. DOMAIN command'[d].rows = {}
      BY <2>1, <1>6, <1>11
    <3> QED BY <2>1, <3>1, <1>6, <1>11
  <2>2. CASE d # c
    <3>1. command'[d] = command[d] /\ ~Running(d)'
      BY <2>2, <1>11, <1>13 DEF Running
    <3> QED BY <3>1 DEF SettingsInv, RowsHold
  <2> QED BY <2>1, <2>2
<1>16. ReportedSettingHolds'
  <2> SUFFICES ASSUME NEW p \in SettingPairs, claimed'[p] # Nothing
               PROVE  official'[p[1]][p[2]] = claimed'[p]
    BY DEF ReportedSettingHolds
  <2>1. p \notin {kind} \X ids /\ claimed'[p] = claimed[p]
    BY <1>3 DEF kind, ids
  <2>2. p[1] \in Kinds /\ p[2] \in Objects /\ p = <<p[1], p[2]>>
    BY DEF SettingPairs
  <2>3. ~(p[1] = kind /\ p[2] \in applied)
    BY <2>1, <2>2 DEF ids
  <2>4. official'[p[1]][p[2]] = official[p[1]][p[2]]
    BY <1>8, <2>2, <2>3
  <2> QED BY <2>1, <2>4 DEF SettingsInv, ReportedSettingHolds
<1> QED BY <1>12, <1>14, <1>15, <1>16 DEF SettingsInv

(* A report without success, of a request not sent or not read back.       *)
LEMMA AllFailedKeeps ==
    ASSUME SettingsInv, NEW c \in SettingCommands, command[c].pc \in {"locked", "sent"},
           NEW receipt \in {"not_sent", "ok", "rejected", "unknown"}, NEW unread \in SUBSET Objects,
           Became(c, [ReportAll(c, "failed") EXCEPT !.receipt = receipt, !.unread = unread]),
           UNCHANGED <<channel, official, settingLock, touched, claimed>>
    PROVE  SettingsInv'
<1> DEFINE new == [ReportAll(c, "failed") EXCEPT !.receipt = receipt, !.unread = unread]
<1>1. command[c] \in Invocation({command[c].rows}) /\ c \in settingLock /\ command[c].target \in Targets
  BY DEF SettingsInv, SettingTypes, OneSettingCommand, Running, RowsHold
<1>2. /\ new \in Invocation({new.rows}) /\ new.pc = "reported" /\ new.target = command[c].target
      /\ new.ids = command[c].ids /\ new.rows = [o \in command[c].ids |-> "failed"]
  BY <1>1 DEF Invocation, SettingPcs, ReportAll
<1>3. Became(c, new)
  OBVIOUS
<1> HIDE DEF new
<1>4. DOMAIN new.rows \subseteq Objects /\ \A o \in DOMAIN new.rows : new.rows[o] = "failed"
  BY <1>1, <1>2 DEF Invocation
<1> QED BY <1>1, <1>2, <1>3, <1>4, CommandMoves

LEMMA MarketingReadBackKeeps ==
    ASSUME SettingsInv, NEW c \in SettingCommands, ReadBackMarketing(c) PROVE SettingsInv'
<1>1. command[c] \in Invocation({command[c].rows}) /\ command[c].pc = "sent"
      /\ c \in settingLock /\ command[c].target \in Targets
  BY DEF SettingsInv, SettingTypes, OneSettingCommand, Running, RowsHold, ReadBackMarketing
<1>2. UNCHANGED <<channel, official, settingLock, touched, claimed>>
  BY DEF ReadBackMarketing
<1>3. CASE Became(c, [ReportAll(c, "failed") EXCEPT !.unread = {}])
  <2>1. command[c].receipt \in {"none", "not_sent", "ok", "rejected", "unknown"}
    BY <1>1 DEF Invocation
  <2> DEFINE new == [ReportAll(c, "failed") EXCEPT !.unread = {}]
  <2>2. /\ new \in Invocation({new.rows}) /\ new.pc = "reported" /\ new.target = command[c].target
        /\ new.ids = command[c].ids /\ new.rows = [o \in command[c].ids |-> "failed"]
    BY <1>1 DEF Invocation, SettingPcs, ReportAll
  <2>3. Became(c, new)
    BY <1>3
  <2> HIDE DEF new
  <2>4. DOMAIN new.rows \subseteq Objects /\ \A o \in DOMAIN new.rows : new.rows[o] = "failed"
    BY <1>1, <2>2 DEF Invocation
  <2> QED BY <1>1, <1>2, <2>2, <2>3, <2>4, CommandMoves
<1>4. CASE Became(c, [command[c] EXCEPT !.pc = "reported", !.unread = {},
                        !.rows = [o \in command[c].ids |-> ReadBackRow(c, o, ReadMutation(command[c].kind, o))]])
  <2> DEFINE rows == [o \in command[c].ids |-> ReadBackRow(c, o, ReadMutation(command[c].kind, o))]
             new == [command[c] EXCEPT !.pc = "reported", !.unread = {}, !.rows = rows]
  <2>1. \A o \in command[c].ids : rows[o] # "failed" => official[command[c].kind][o] = command[c].target
    BY <1>1, RowsAreTrue
  <2>2. DOMAIN rows = command[c].ids /\ command[c].ids \subseteq Objects
    BY <1>1 DEF Invocation
  <2>3. Became(c, new)
    BY <1>4
  <2> HIDE DEF rows
  <2>4. /\ new \in Invocation({new.rows}) /\ new.pc = "reported" /\ new.target = command[c].target
        /\ new.ids = command[c].ids /\ new.kind = command[c].kind /\ new.rows = rows
    BY <1>1 DEF Invocation, SettingPcs
  <2> HIDE DEF new
  <2> QED BY <1>1, <1>2, <2>1, <2>2, <2>3, <2>4, CommandMoves
<1> QED BY <1>3, <1>4 DEF ReadBackMarketing

LEMMA QianchuanReadBackKeeps ==
    ASSUME SettingsInv, NEW c \in SettingCommands, ReadBackQianchuan(c) PROVE SettingsInv'
<1>1. command[c] \in Invocation({command[c].rows}) /\ command[c].pc = "sent"
      /\ c \in settingLock /\ command[c].target \in Targets
      /\ DOMAIN command[c].rows \subseteq Objects
      /\ \A o \in DOMAIN command[c].rows : RowHolds(c, o)
  BY DEF SettingsInv, SettingTypes, OneSettingCommand, Running, RowsHold, ReadBackQianchuan
<1>2. UNCHANGED <<channel, official, settingLock, touched, claimed>>
  BY DEF ReadBackQianchuan
<1>3. PICK o \in command[c].unread :
        \E row \in {"failed", ReadBackRow(c, o, FetchPlanDetail(command[c].kind, o))} :
            Became(c, [command[c] EXCEPT !.unread = @ \ {o},
                          !.pc = IF command[c].unread = {o} THEN "reported" ELSE "sent",
                          !.rows = [p \in DOMAIN @ \cup {o} |-> IF p = o THEN row ELSE @[p]]])
  BY DEF ReadBackQianchuan
<1>4. PICK row \in {"failed", ReadBackRow(c, o, FetchPlanDetail(command[c].kind, o))} :
            Became(c, [command[c] EXCEPT !.unread = @ \ {o},
                          !.pc = IF command[c].unread = {o} THEN "reported" ELSE "sent",
                          !.rows = [p \in DOMAIN @ \cup {o} |-> IF p = o THEN row ELSE @[p]]])
  BY <1>3
<1>5. row # "failed" => official[command[c].kind][o] = command[c].target
  BY <1>1, RowsAreTrue
<1> DEFINE rows == [p \in DOMAIN command[c].rows \cup {o} |-> IF p = o THEN row ELSE command[c].rows[p]]
           next == IF command[c].unread = {o} THEN "reported" ELSE "sent"
           new == [command[c] EXCEPT !.unread = @ \ {o}, !.pc = next, !.rows = rows]
<1>6. Became(c, new)
  BY <1>4
<1>7. next \in {"sent", "reported"}
  OBVIOUS
<1>8. \A p \in DOMAIN rows : rows[p] # "failed" /\ <<command[c].kind, p>> \notin touched[c]
                             => official[command[c].kind][p] = command[c].target
  BY <1>1, <1>5 DEF RowHolds
<1>9. DOMAIN rows = DOMAIN command[c].rows \cup {o}
  OBVIOUS
<1> HIDE DEF rows, next
<1>10. /\ new \in Invocation({new.rows}) /\ new.pc = next /\ new.target = command[c].target
       /\ new.ids = command[c].ids /\ new.kind = command[c].kind /\ new.rows = rows
  BY <1>1, <1>7 DEF Invocation, SettingPcs
<1>11. o \in Objects
  BY <1>1 DEF Invocation
<1> HIDE DEF new
<1> QED BY <1>1, <1>2, <1>6, <1>7, <1>8, <1>9, <1>10, <1>11, CommandMoves

(* The report: what it claims is what the rows say.                        *)
LEMMA ReturnKeeps ==
    ASSUME SettingsInv, NEW c \in SettingCommands, ReturnSettings(c) PROVE SettingsInv'
<1> DEFINE kind == command[c].kind
           sure == ({kind} \X Succeeded(c)) \ touched[c]
<1>1. command[c] \in Invocation({command[c].rows}) /\ command[c].target \in Targets
      /\ DOMAIN command[c].rows \subseteq Objects
      /\ \A o \in DOMAIN command[c].rows : RowHolds(c, o)
  BY DEF SettingsInv, SettingTypes, RowsHold, ReturnSettings, Running
<1>2. /\ claimed' = [p \in SettingPairs |-> IF p \in sure THEN command[c].target ELSE claimed[p]]
      /\ settingLock' = settingLock \ {c} /\ touched' = [touched EXCEPT ![c] = {}]
      /\ Became(c, Over) /\ UNCHANGED <<channel, official>>
  BY DEF ReturnSettings
<1>3. claimed' \in [SettingPairs -> Targets \cup {Nothing}]
  BY <1>1, <1>2 DEF SettingsInv, SettingTypes
<1>4. ReportedSettingHolds'
  <2> SUFFICES ASSUME NEW p \in SettingPairs, claimed'[p] # Nothing
               PROVE  official[p[1]][p[2]] = claimed'[p]
    BY <1>2 DEF ReportedSettingHolds
  <2>1. CASE p \in sure
    <3>1. p[1] = kind /\ p[2] \in Succeeded(c) /\ p = <<kind, p[2]>> /\ p \notin touched[c]
      BY <2>1
    <3>2. p[2] \in DOMAIN command[c].rows /\ command[c].rows[p[2]] # "failed"
      BY <3>1 DEF Succeeded
    <3> QED BY <1>1, <1>2, <2>1, <3>1, <3>2 DEF RowHolds
  <2>2. CASE p \notin sure
    BY <1>2, <2>2 DEF SettingsInv, ReportedSettingHolds
  <2> QED BY <2>1, <2>2
<1> QED BY <1>2, <1>3, <1>4, CommandEnds

LEMMA CrashKeeps ==
    ASSUME SettingsInv, NEW c \in SettingCommands, SettingsCrash(c) PROVE SettingsInv'
<1>1. ReportedSettingHolds' /\ claimed' \in [SettingPairs -> Targets \cup {Nothing}]
  BY DEF SettingsCrash, SettingsInv, SettingTypes, ReportedSettingHolds
<1> QED BY <1>1, CommandEnds DEF SettingsCrash

(* Somebody changes an object: whoever has read it, or sent a request for  *)
(* it, takes note, and nothing is claimed of it any more.                  *)
LEMMA ConsoleKeeps == ASSUME SettingsInv, ConsoleChange PROVE SettingsInv'
<1>1. PICK kind \in Kinds, o \in Objects : \E t \in Target[kind] \ {official[kind][o]} :
          /\ official' = [official EXCEPT ![kind][o] = t]
          /\ touched' = [c \in SettingCommands |-> IF command[c].pc \in {"sent", "reported"}
                                                  THEN touched[c] \cup {<<kind, o>>} ELSE touched[c]]
          /\ claimed' = [claimed EXCEPT ![<<kind, o>>] = Nothing]
  BY DEF ConsoleChange
<1>2. PICK t \in Target[kind] : official' = [official EXCEPT ![kind][o] = t]
  BY <1>1
<1>3. t \in Targets /\ <<kind, o>> \in SettingPairs
  BY DEF Target, Targets, Kinds, SettingPairs
<1>4. UNCHANGED <<channel, settingLock, command>>
  BY DEF ConsoleChange
<1>5. SettingTypes'
  <2>1. official' \in [Kinds -> [Objects -> Targets]]
    BY <1>2, <1>3 DEF SettingsInv, SettingTypes
  <2>2. touched' \in [SettingCommands -> SUBSET SettingPairs]
    <3>1. \A c \in SettingCommands : touched[c] \subseteq SettingPairs
      BY DEF SettingsInv, SettingTypes
    <3>2. \A c \in SettingCommands : touched'[c] \subseteq touched[c] \cup {<<kind, o>>}
      BY <1>1
    <3>3. \A c \in SettingCommands : touched'[c] \in SUBSET SettingPairs
      BY <1>3, <3>1, <3>2
    <3> QED BY <1>1, <3>3
  <2>3. claimed' \in [SettingPairs -> Targets \cup {Nothing}]
    BY <1>1, <1>3 DEF SettingsInv, SettingTypes
  <2> QED BY <1>4, <2>1, <2>2, <2>3 DEF SettingsInv, SettingTypes
<1>6. OneSettingCommand'
  BY <1>4 DEF SettingsInv, OneSettingCommand, Running
<1>7. \A k \in Kinds, q \in Objects : <<k, q>> # <<kind, o>> => official'[k][q] = official[k][q]
  BY <1>2 DEF SettingsInv, SettingTypes
<1>8. RowsHold'
  <2> SUFFICES ASSUME NEW c \in SettingCommands, Running(c), NEW q \in DOMAIN command[c].rows,
                      command[c].rows[q] # "failed", <<command[c].kind, q>> \notin touched'[c]
               PROVE  official'[command[c].kind][q] = command[c].target
    BY <1>4 DEF SettingsInv, RowsHold, Running, RowHolds
  <2>1. command[c].kind \in Kinds /\ q \in Objects
    BY DEF SettingsInv, SettingTypes, RowsHold, Invocation
  <2>2. command[c].pc \in {"sent", "reported"}
    BY DEF Running, SettingsInv, RowsHold
  <2>3. <<command[c].kind, q>> \notin touched[c] /\ <<command[c].kind, q>> # <<kind, o>>
    BY <1>1, <2>2
  <2> QED BY <1>7, <2>1, <2>3 DEF SettingsInv, RowsHold, RowHolds
<1>9. ReportedSettingHolds'
  <2> SUFFICES ASSUME NEW p \in SettingPairs, claimed'[p] # Nothing
               PROVE  official'[p[1]][p[2]] = claimed'[p]
    BY DEF ReportedSettingHolds
  <2>1. p # <<kind, o>> /\ claimed'[p] = claimed[p]
    BY <1>1, <1>3 DEF SettingsInv, SettingTypes
  <2>2. p[1] \in Kinds /\ p[2] \in Objects /\ p = <<p[1], p[2]>>
    BY DEF SettingPairs
  <2> QED BY <1>7, <2>1, <2>2 DEF SettingsInv, ReportedSettingHolds
<1> QED BY <1>5, <1>6, <1>8, <1>9 DEF SettingsInv

-----------------------------------------------------------------------------
(* What a command reported of an object, the platform says, until a later  *)
(* command or somebody in the console changes the object.                  *)
THEOREM ReportsHold == SettingsSpec => []ReportedSettingHolds
<1>1. SettingsInit => SettingsInv
  BY SettingsInitially
<1>2. SettingsInv /\ [SettingsNext]_settingVars => SettingsInv'
  <2> SUFFICES ASSUME SettingsInv, [SettingsNext]_settingVars PROVE SettingsInv'
    OBVIOUS
  <2>1. CASE UNCHANGED settingVars
    BY <2>1 DEF settingVars, SettingsInv, SettingTypes, OneSettingCommand, Running, RowsHold,
                RowHolds, ReportedSettingHolds
  <2>2. CASE ConsoleChange
    BY <2>2, ConsoleKeeps
  <2>3. ASSUME NEW c \in SettingCommands, SettingStep(c) PROVE SettingsInv'
    <3>1. CASE NotSent(c)
      <4>1. command[c].pc = "locked" /\ UNCHANGED <<channel, official, settingLock, touched, claimed>>
        BY <3>1 DEF NotSent
      <4>2. command[c].unread \in SUBSET Objects
        BY DEF SettingsInv, SettingTypes, Invocation
      <4>3. [ReportAll(c, "failed") EXCEPT !.receipt = "not_sent"]
               = [ReportAll(c, "failed") EXCEPT !.receipt = "not_sent", !.unread = command[c].unread]
        BY DEF SettingsInv, SettingTypes, Invocation, ReportAll
      <4> QED BY <3>1, <4>1, <4>2, <4>3, AllFailedKeeps DEF NotSent
    <3> QED BY <2>3, <3>1, ExecuteKeeps, GiveUpKeeps, AcquireKeeps, DispatchKeeps, MarketingReadBackKeeps,
               QianchuanReadBackKeeps, ReturnKeeps, CrashKeeps DEF SettingStep
  <2> QED BY <2>1, <2>2, <2>3 DEF SettingsNext
<1>3. SettingsInv => ReportedSettingHolds
  BY DEF SettingsInv
<1> QED BY <1>1, <1>2, <1>3, PTL DEF SettingsSpec

-----------------------------------------------------------------------------
(***************************************************************************)
(* ReadPool, for any goroutines, plans, pages, slots and writes.           *)
(***************************************************************************)

Pages == 1..PageCount
ReaderPcs == {"ask", "read", "wait", "has", "wrote", "ended"}
CallRecord == [state : {"open", "ok", "failed"}, todo : SUBSET Pages, seen : SUBSET Nat, failed : BOOLEAN]
ReaderRecord == [pc : ReaderPcs, round : Rounds, call : Calls \cup {Unset}, wrote : Nat]

PoolTypes ==
    /\ written \in [PlanIds -> Nat]
    /\ reads \in [PlanIds -> Calls \cup {Unset}]
    /\ call \in [Calls -> CallRecord]
    /\ reader \in [Readers -> ReaderRecord]
    /\ slots \subseteq Calls \X Pages
    /\ \A r \in Readers : reader[r].pc = "wrote" => reader[r].round < MaxWrites

(* Who reads: the goroutine the call is named after, in its present round. *)
Reading(k) == reader[k[1]].pc = "read" /\ Own(k[1]) = k

(* Pages are under way only for a reader, and a call that can still be     *)
(* joined or is waited for is being read until it is answered.             *)
SlotsRead == \A s \in slots : Reading(s[1])
Live(k) == call[k].state = "open" => Reading(k)
PlanLive(p) == reads[p] # Unset => Live(reads[p])
WaitLive(r) == reader[r].pc = "wait" => Live(reader[r].call)
OpenIsRead == SlotsRead /\ (\A p \in PlanIds : PlanLive(p)) /\ (\A r \in Readers : WaitLive(r))

(* A call that has not begun has seen nothing.                             *)
NotBegun(k) ==
    LET r == k[1] IN k[2] > reader[r].round \/ (k[2] = reader[r].round /\ reader[r].pc = "ask")
FutureIsFresh == \A k \in Calls : NotBegun(k) => call[k] = NoCall

(* The calls of a plan read that plan, and one that a goroutine is in, or  *)
(* could join, has seen nothing older than what the goroutine wrote.       *)
SeenSince(k, n) == \A seen \in call[k].seen : seen >= n
OfPlan(k, p) == k \in Calls /\ PlanOf[k[1]] = p
PlanSees(p) == reads[p] # Unset => OfPlan(reads[p], p)
ReaderSees(r) ==
    /\ reader[r].wrote <= written[PlanOf[r]]
    /\ reader[r].pc = "read" => reader[r].call = Own(r)
    /\ reader[r].pc \in {"read", "wait", "has"}
          => OfPlan(reader[r].call, PlanOf[r]) /\ SeenSince(reader[r].call, reader[r].wrote)
    /\ reader[r].pc = "ask" /\ reads[PlanOf[r]] # Unset
          => SeenSince(reads[PlanOf[r]], reader[r].wrote)
Sees == (\A p \in PlanIds : PlanSees(p)) /\ (\A r \in Readers : ReaderSees(r))

PoolInv == PoolTypes /\ OpenIsRead /\ FutureIsFresh /\ Sees

-----------------------------------------------------------------------------
LEMMA CallParts ==
    /\ \A k \in Calls : k[1] \in Readers /\ k[2] \in Rounds /\ k = <<k[1], k[2]>>
    /\ \A r \in Readers : PlanOf[r] \in PlanIds
    /\ MaxWrites \in Nat /\ PageCount \in Nat \ {0} /\ Unset \notin Calls
    /\ Rounds \subseteq Nat /\ 1 \in Pages /\ 2..PageCount \subseteq Pages
BY ReadPoolAssumption DEF Calls, PlanIds, Rounds, Pages

LEMMA OwnCall == PoolTypes => \A r \in Readers : Own(r) \in Calls /\ Own(r)[1] = r /\ Own(r)[2] = reader[r].round
BY DEF PoolTypes, Own, Calls, ReaderRecord

LEMMA PoolInitially == ReadPoolInit => PoolInv
<1> SUFFICES ASSUME ReadPoolInit PROVE PoolInv
  OBVIOUS
<1>1. NoCall \in CallRecord /\ NoCall.seen = {}
  BY CallParts DEF NoCall, CallRecord
<1>2. \A r \in Readers : reader[r] = [pc |-> "ask", round |-> 0, call |-> Unset, wrote |-> 0]
  BY DEF ReadPoolInit
<1>3. 0 \in Rounds
  BY CallParts DEF Rounds
<1>4. PoolTypes
  BY <1>1, <1>3, CallParts DEF ReadPoolInit, PoolTypes, ReaderRecord, ReaderPcs
<1>5. OpenIsRead
  BY <1>2 DEF ReadPoolInit, OpenIsRead, SlotsRead, PlanLive, WaitLive
<1>6. FutureIsFresh
  BY DEF ReadPoolInit, FutureIsFresh
<1>7. Sees
  BY <1>2, CallParts DEF ReadPoolInit, Sees, PlanSees, ReaderSees
<1> QED BY <1>4, <1>5, <1>6, <1>7 DEF PoolInv

(* A goroutine begins to read, or joins the read of another one.           *)
LEMMA AskKeeps == ASSUME PoolInv, NEW r \in Readers, RunReadOnce(r) PROVE PoolInv'
<1> DEFINE p == PlanOf[r]
<1>1. p \in PlanIds /\ Own(r) \in Calls /\ Own(r)[1] = r /\ Own(r)[2] = reader[r].round
  BY CallParts, OwnCall DEF PoolInv
<1>2. reader[r].pc = "ask" /\ reader[r] \in ReaderRecord /\ UNCHANGED <<written, call, stopped>>
  BY DEF RunReadOnce, PoolInv, PoolTypes
<1>3. call[Own(r)].seen = {}
  BY <1>1, <1>2 DEF PoolInv, FutureIsFresh, NotBegun, NoCall
<1>4. slots' = slots
  BY DEF RunReadOnce, WaiterHolds
<1>5. PICK k \in Calls, pc \in {"read", "wait"} :
        /\ reader' = [reader EXCEPT ![r].pc = pc, ![r].call = k]
        /\ pc = "read" => reads[p] = Unset /\ k = Own(r) /\ reads' = [reads EXCEPT ![p] = k]
        /\ pc = "wait" => k = reads[p] /\ reads[p] # Unset /\ reads' = reads
  <2>1. CASE reads[p] = Unset
    BY <1>1, <2>1 DEF RunReadOnce
  <2>2. CASE reads[p] # Unset
    <3>1. reads[p] \in Calls
      BY <1>1, <2>2 DEF PoolInv, PoolTypes
    <3> QED BY <2>2, <3>1 DEF RunReadOnce
  <2> QED BY <2>1, <2>2
<1>6. /\ reader'[r].pc = pc /\ reader'[r].call = k /\ reader'[r].round = reader[r].round
      /\ reader'[r].wrote = reader[r].wrote
      /\ \A q \in Readers \ {r} : reader'[q] = reader[q]
  BY <1>2, <1>5 DEF PoolInv, PoolTypes, ReaderRecord
<1>7. PoolTypes'
  <2>1. reader' \in [Readers -> ReaderRecord]
    <3> DEFINE new == [reader[r] EXCEPT !.pc = pc, !.call = k]
    <3>1. reader' = [reader EXCEPT ![r] = new]
      BY <1>5
    <3>2. new \in ReaderRecord
      BY <1>2 DEF ReaderRecord, ReaderPcs
    <3> QED BY <3>1, <3>2 DEF PoolInv, PoolTypes
  <2>2. reads' \in [PlanIds -> Calls \cup {Unset}]
    BY <1>1, <1>5 DEF PoolInv, PoolTypes
  <2>3. \A q \in Readers : reader'[q].pc = "wrote" => reader'[q].round < MaxWrites
    BY <1>6 DEF PoolInv, PoolTypes
  <2> QED BY <1>2, <1>4, <2>1, <2>2, <2>3 DEF PoolInv, PoolTypes
<1>8. \A q \in Readers : Own(q)' = Own(q)
  BY <1>6 DEF Own
<1>9. ASSUME NEW m \in Calls, Reading(m) PROVE Reading(m)'
  BY <1>2, <1>6, <1>8, <1>9, CallParts DEF Reading
<1>10. \A m \in Calls : Live(m) => Live(m)'
  BY <1>2, <1>9 DEF Live
<1>11. Live(k)' /\ OfPlan(k, p) /\ SeenSince(k, reader[r].wrote)
  <2>1. CASE pc = "read"
    BY <1>1, <1>3, <1>5, <1>6, <1>8, <2>1 DEF Live, Reading, OfPlan, SeenSince
  <2>2. CASE pc = "wait"
    BY <1>1, <1>2, <1>5, <1>10, <2>2 DEF PoolInv, OpenIsRead, PlanLive, Sees, PlanSees, ReaderSees
  <2> QED BY <2>1, <2>2
<1>12. \A q \in PlanIds : reads'[q] = IF q = p THEN k ELSE reads[q]
  BY <1>1, <1>5 DEF PoolInv, PoolTypes
<1>13. OpenIsRead'
  <2>1. SlotsRead'
    BY <1>4, <1>9 DEF PoolInv, PoolTypes, OpenIsRead, SlotsRead
  <2>2. ASSUME NEW q \in PlanIds PROVE PlanLive(q)'
    BY <1>10, <1>11, <1>12 DEF PoolInv, PoolTypes, OpenIsRead, PlanLive
  <2>3. ASSUME NEW q \in Readers PROVE WaitLive(q)'
    <3>1. CASE q = r
      BY <1>6, <1>11, <3>1 DEF WaitLive
    <3>2. CASE q # r
      BY <1>6, <1>10, <3>2 DEF PoolInv, OpenIsRead, WaitLive, Sees, ReaderSees, OfPlan
    <3> QED BY <3>1, <3>2
  <2> QED BY <2>1, <2>2, <2>3 DEF OpenIsRead
<1>14. FutureIsFresh'
  BY <1>2, <1>6, CallParts DEF PoolInv, FutureIsFresh, NotBegun
<1>15. Sees'
  <2>1. ASSUME NEW q \in PlanIds PROVE PlanSees(q)'
    BY <1>11, <1>12 DEF PoolInv, Sees, PlanSees, OfPlan
  <2>2. ASSUME NEW q \in Readers PROVE ReaderSees(q)'
    <3>1. CASE q = r
      <4>1. SeenSince(k, reader[r].wrote)'
        BY <1>2, <1>6, <1>11 DEF SeenSince
      <4>2. reader[r].wrote <= written[p]
        BY DEF PoolInv, Sees, ReaderSees
      <4> QED BY <1>1, <1>2, <1>5, <1>6, <1>8, <1>11, <3>1, <4>1, <4>2 DEF ReaderSees, OfPlan, SeenSince
    <3>2. CASE q # r
      <4>1. reader'[q] = reader[q] /\ ReaderSees(q) /\ PlanOf[q] \in PlanIds
        BY <1>6, <3>2, CallParts DEF PoolInv, Sees
      <4>2. CASE reads'[PlanOf[q]] = reads[PlanOf[q]]
        BY <1>2, <1>8, <4>1, <4>2 DEF ReaderSees, OfPlan, SeenSince
      <4>3. CASE reads'[PlanOf[q]] = Own(r)
        BY <1>2, <1>3, <1>8, <4>1, <4>3 DEF ReaderSees, OfPlan, SeenSince
      <4> QED BY <1>5, <1>12, <4>1, <4>2, <4>3
    <3> QED BY <3>1, <3>2
  <2> QED BY <2>1, <2>2 DEF Sees
<1> QED BY <1>7, <1>13, <1>14, <1>15 DEF PoolInv

(* A reader gets on with its pages: what a page shows is what is written.  *)
LEMMA PagesKeep ==
    ASSUME PoolInv, NEW r \in Readers, reader[r].pc = "read", NEW new \in CallRecord,
           call' = [call EXCEPT ![Own(r)] = new], new.state = call[Own(r)].state,
           new.seen \subseteq call[Own(r)].seen \cup {written[PlanOf[r]]},
           slots' \subseteq slots \cup ({Own(r)} \X Pages),
           UNCHANGED <<written, reads, reader>>
    PROVE  PoolInv'
<1>1. PlanOf[r] \in PlanIds /\ Own(r) \in Calls /\ Own(r)[1] = r /\ Own(r)[2] = reader[r].round
  BY CallParts, OwnCall DEF PoolInv
<1>2. call'[Own(r)] = new /\ \A k \in Calls \ {Own(r)} : call'[k] = call[k]
  BY <1>1 DEF PoolInv, PoolTypes
<1>3. PoolTypes'
  BY <1>1 DEF PoolInv, PoolTypes
<1>4. \A k : Reading(k) => Reading(k)'
  BY DEF Reading, Own
<1>5. Reading(Own(r))
  BY <1>1 DEF Reading
<1>6. \A k \in Calls : Live(k) => Live(k)'
  BY <1>2, <1>4 DEF Live
<1>7. OpenIsRead'
  <2>1. SlotsRead'
    BY <1>4, <1>5 DEF PoolInv, OpenIsRead, SlotsRead
  <2>2. ASSUME NEW q \in PlanIds PROVE PlanLive(q)'
    BY <1>6 DEF PoolInv, PoolTypes, OpenIsRead, PlanLive
  <2>3. ASSUME NEW q \in Readers PROVE WaitLive(q)'
    BY <1>6 DEF PoolInv, OpenIsRead, WaitLive, Sees, ReaderSees, OfPlan
  <2> QED BY <2>1, <2>2, <2>3 DEF OpenIsRead
<1>8. FutureIsFresh'
  <2>1. ~NotBegun(Own(r))
    BY <1>1, CallParts DEF NotBegun
  <2> QED BY <1>2, <2>1 DEF PoolInv, FutureIsFresh, NotBegun
<1>9. Sees'
  <2>1. ASSUME NEW q \in PlanIds PROVE PlanSees(q)'
    BY DEF PoolInv, Sees, PlanSees, OfPlan
  <2>2. ASSUME NEW k \in Calls, NEW q \in Readers, OfPlan(k, PlanOf[q]), SeenSince(k, reader[q].wrote)
        PROVE  SeenSince(k, reader[q].wrote)'
    <3>1. reader[q].wrote <= written[PlanOf[q]]
      BY DEF PoolInv, Sees, ReaderSees
    <3> QED BY <1>1, <1>2, <2>2, <3>1 DEF SeenSince, OfPlan
  <2>3. ASSUME NEW q \in Readers PROVE ReaderSees(q)'
    <3>1. ReaderSees(q) /\ PlanOf[q] \in PlanIds /\ PlanSees(PlanOf[q])
      BY CallParts DEF PoolInv, Sees
    <3> QED BY <2>2, <3>1 DEF ReaderSees, PlanSees, OfPlan, Own
  <2> QED BY <2>1, <2>3 DEF Sees
<1> QED BY <1>3, <1>7, <1>8, <1>9 DEF PoolInv

(* A goroutine that waits has its answer, or one with an answer is done.   *)
LEMMA ReaderLeaves ==
    ASSUME PoolInv, NEW r \in Readers, NEW pc \in {"has", "ended"}, reader[r].pc \in {"wait", "has"},
           reader' = [reader EXCEPT ![r].pc = pc], UNCHANGED <<written, reads, call, slots>>
    PROVE  PoolInv'
<1>1. /\ reader'[r].pc = pc /\ reader'[r].call = reader[r].call /\ reader'[r].round = reader[r].round
      /\ reader'[r].wrote = reader[r].wrote
      /\ \A q \in Readers \ {r} : reader'[q] = reader[q]
  BY DEF PoolInv, PoolTypes, ReaderRecord
<1>2. PoolTypes'
  <2>1. reader' \in [Readers -> ReaderRecord]
    BY DEF PoolInv, PoolTypes, ReaderRecord, ReaderPcs
  <2> QED BY <1>1, <2>1 DEF PoolInv, PoolTypes
<1>3. \A q \in Readers : Own(q)' = Own(q)
  BY <1>1 DEF Own
<1>4. ASSUME NEW k \in Calls, Reading(k) PROVE Reading(k)'
  BY <1>1, <1>3, <1>4, CallParts DEF Reading
<1>5. OpenIsRead'
  <2>1. SlotsRead'
    BY <1>4 DEF PoolInv, PoolTypes, OpenIsRead, SlotsRead
  <2>2. ASSUME NEW q \in PlanIds PROVE PlanLive(q)'
    BY <1>4 DEF PoolInv, PoolTypes, OpenIsRead, PlanLive, Live
  <2>3. ASSUME NEW q \in Readers PROVE WaitLive(q)'
    BY <1>1, <1>4 DEF PoolInv, OpenIsRead, WaitLive, Live, Sees, ReaderSees, OfPlan
  <2> QED BY <2>1, <2>2, <2>3 DEF OpenIsRead
<1>6. FutureIsFresh'
  BY <1>1, CallParts DEF PoolInv, FutureIsFresh, NotBegun
<1>7. Sees'
  <2>1. ASSUME NEW q \in PlanIds PROVE PlanSees(q)'
    BY DEF PoolInv, Sees, PlanSees, OfPlan
  <2>2. ASSUME NEW q \in Readers PROVE ReaderSees(q)'
    BY <1>1, <1>3 DEF PoolInv, Sees, ReaderSees, OfPlan, SeenSince
  <2> QED BY <2>1, <2>2 DEF Sees
<1> QED BY <1>2, <1>5, <1>6, <1>7 DEF PoolInv

LEMMA RunReadKeeps == ASSUME PoolInv, NEW r \in Readers, RunRead(r) PROVE PoolInv'
<1>1. Own(r) \in Calls /\ call[Own(r)] \in CallRecord /\ reader[r].pc = "read"
  BY OwnCall DEF PoolInv, PoolTypes, RunRead
<1>2. PICK page \in call[Own(r)].todo :
        /\ slots' = slots \cup {<<Own(r), page>>}
        /\ call' = [call EXCEPT ![Own(r)].todo = @ \ {page}]
  BY DEF RunRead
<1> DEFINE new == [call[Own(r)] EXCEPT !.todo = @ \ {page}]
<1>3. new \in CallRecord /\ new.state = call[Own(r)].state /\ new.seen = call[Own(r)].seen
  BY <1>1 DEF CallRecord
<1>4. call' = [call EXCEPT ![Own(r)] = new] /\ page \in Pages
  BY <1>1, <1>2 DEF CallRecord
<1>5. slots' \subseteq slots \cup ({Own(r)} \X Pages) /\ UNCHANGED <<written, reads, reader>>
  BY <1>2, <1>4 DEF RunRead
<1>6. new.seen \subseteq call[Own(r)].seen \cup {written[PlanOf[r]]}
  BY <1>3
<1> HIDE DEF new
<1> QED BY <1>1, <1>3, <1>4, <1>5, <1>6, PagesKeep

LEMMA FetchKeeps == ASSUME PoolInv, NEW r \in Readers, FetchPage(r) PROVE PoolInv'
<1>1. /\ Own(r) \in Calls /\ call[Own(r)] \in CallRecord /\ reader[r].pc = "read"
      /\ written[PlanOf[r]] \in Nat
  BY OwnCall, CallParts DEF PoolInv, PoolTypes, FetchPage
<1>2. PICK page \in Held(Own(r)), ok \in BOOLEAN :
        /\ slots' = slots \ {<<Own(r), page>>}
        /\ call' = [call EXCEPT ![Own(r)].failed = @ \/ ~ok,
                                ![Own(r)].seen = IF ok THEN @ \cup {written[PlanOf[r]]} ELSE @,
                                ![Own(r)].todo = IF page = 1 /\ ok THEN 2..PageCount ELSE @]
  BY DEF FetchPage
<1> DEFINE failed == call[Own(r)].failed \/ ~ok
           seen == IF ok THEN call[Own(r)].seen \cup {written[PlanOf[r]]} ELSE call[Own(r)].seen
           todo == IF page = 1 /\ ok THEN 2..PageCount ELSE call[Own(r)].todo
           new == [call[Own(r)] EXCEPT !.failed = failed, !.seen = seen, !.todo = todo]
<1>3. call' = [call EXCEPT ![Own(r)] = new]
  BY <1>2
<1>4. failed \in BOOLEAN
  OBVIOUS
<1>5. seen \in SUBSET Nat /\ seen \subseteq call[Own(r)].seen \cup {written[PlanOf[r]]}
  BY <1>1 DEF CallRecord
<1>6. todo \in SUBSET Pages
  BY <1>1, CallParts DEF CallRecord
<1> HIDE DEF failed, seen, todo
<1>7. new \in CallRecord /\ new.state = call[Own(r)].state /\ new.seen = seen
  BY <1>1, <1>4, <1>5, <1>6 DEF CallRecord
<1>8. slots' \subseteq slots \cup ({Own(r)} \X Pages) /\ UNCHANGED <<written, reads, reader>>
  BY <1>2 DEF FetchPage
<1>9. new.seen \subseteq call[Own(r)].seen \cup {written[PlanOf[r]]}
  BY <1>5, <1>7
<1> HIDE DEF new
<1> QED BY <1>1, <1>3, <1>7, <1>8, <1>9, PagesKeep

LEMMA GiveUpPagesKeeps == ASSUME PoolInv, NEW r \in Readers, GiveUpPages(r) PROVE PoolInv'
<1>1. Own(r) \in Calls /\ call[Own(r)] \in CallRecord /\ reader[r].pc = "read"
  BY OwnCall DEF PoolInv, PoolTypes, GiveUpPages
<1> DEFINE new == [call[Own(r)] EXCEPT !.failed = TRUE, !.todo = {}]
<1>2. new \in CallRecord /\ new.state = call[Own(r)].state /\ new.seen = call[Own(r)].seen
  BY <1>1 DEF CallRecord
<1>3. call' = [call EXCEPT ![Own(r)] = new] /\ UNCHANGED <<written, reads, reader, slots>>
  BY <1>1 DEF GiveUpPages, PoolInv, PoolTypes
<1>4. new.seen \subseteq call[Own(r)].seen \cup {written[PlanOf[r]]}
      /\ slots' \subseteq slots \cup ({Own(r)} \X Pages)
  BY <1>2, <1>3
<1> HIDE DEF new
<1> QED BY <1>1, <1>2, <1>3, <1>4, PagesKeep

(* A read ends when none of its pages is under way: nobody waits for it    *)
(* any more.                                                               *)
LEMMA EndReadKeeps == ASSUME PoolInv, NEW r \in Readers, EndRead(r) PROVE PoolInv'
<1> DEFINE k == Own(r)
<1>1. k \in Calls /\ k[1] = r /\ k[2] = reader[r].round /\ call[k] \in CallRecord
      /\ reader[r].pc = "read" /\ reader[r] \in ReaderRecord /\ Held(k) = {}
      /\ UNCHANGED <<written, reads, slots>>
  BY OwnCall DEF PoolInv, PoolTypes, EndRead
<1>2. PICK state \in {"failed", "ok"} : call' = [call EXCEPT ![k].state = state]
  BY DEF EndRead
<1>3. PICK pc \in {"has", "ended"} : reader' = [reader EXCEPT ![r].pc = pc]
  BY DEF EndRead
<1>4. /\ call'[k].state = state /\ call'[k].seen = call[k].seen /\ call'[k] \in CallRecord
      /\ \A m \in Calls \ {k} : call'[m] = call[m]
  BY <1>1, <1>2 DEF PoolInv, PoolTypes, CallRecord
<1>5. /\ reader'[r].pc = pc /\ reader'[r].call = reader[r].call /\ reader'[r].round = reader[r].round
      /\ reader'[r].wrote = reader[r].wrote
      /\ \A q \in Readers \ {r} : reader'[q] = reader[q]
  BY <1>1, <1>3 DEF PoolInv, PoolTypes, ReaderRecord
<1>6. PoolTypes'
  <2>1. reader' \in [Readers -> ReaderRecord]
    BY <1>1, <1>3 DEF PoolInv, PoolTypes, ReaderRecord, ReaderPcs
  <2>2. call' \in [Calls -> CallRecord]
    BY <1>1, <1>2 DEF PoolInv, PoolTypes, CallRecord
  <2> QED BY <1>1, <1>5, <2>1, <2>2 DEF PoolInv, PoolTypes
<1>7. \A q \in Readers : Own(q)' = Own(q)
  BY <1>5 DEF Own
<1>8. ASSUME NEW m \in Calls, m # k, Reading(m) PROVE Reading(m)'
  BY <1>1, <1>5, <1>7, <1>8, CallParts DEF Reading
<1>9. \A m \in Calls : Live(m) => Live(m)'
  <2> SUFFICES ASSUME NEW m \in Calls, Live(m) PROVE Live(m)'
    OBVIOUS
  <2>1. CASE m = k
    BY <1>4, <2>1 DEF Live
  <2>2. CASE m # k
    BY <1>4, <1>8, <2>2 DEF Live
  <2> QED BY <2>1, <2>2
<1>10. OpenIsRead'
  <2>1. ASSUME NEW s \in slots PROVE s[1] # k /\ s[1] \in Calls /\ Reading(s[1])
    BY <1>1 DEF PoolInv, PoolTypes, OpenIsRead, SlotsRead, Held, Pages
  <2>2. SlotsRead'
    BY <1>1, <1>8, <2>1 DEF SlotsRead
  <2>3. ASSUME NEW q \in PlanIds PROVE PlanLive(q)'
    BY <1>1, <1>9 DEF PoolInv, PoolTypes, OpenIsRead, PlanLive
  <2>4. ASSUME NEW q \in Readers PROVE WaitLive(q)'
    BY <1>5, <1>9 DEF PoolInv, OpenIsRead, WaitLive, Sees, ReaderSees, OfPlan
  <2> QED BY <2>2, <2>3, <2>4 DEF OpenIsRead
<1>11. FutureIsFresh'
  <2>1. reader[r].round \in Nat
    BY <1>1, CallParts DEF ReaderRecord
  <2>2. ASSUME NEW m \in Calls, NotBegun(m)' PROVE m # k /\ NotBegun(m)
    BY <1>1, <1>5, <2>1, <2>2, CallParts DEF NotBegun
  <2> HIDE DEF k
  <2> QED BY <1>4, <2>2 DEF PoolInv, FutureIsFresh
<1>12. Sees'
  <2>1. \A m \in Calls : call'[m].seen = call[m].seen
    BY <1>4
  <2>2. ASSUME NEW q \in PlanIds PROVE PlanSees(q)'
    BY <1>1 DEF PoolInv, Sees, PlanSees, OfPlan
  <2>3. ASSUME NEW q \in Readers PROVE ReaderSees(q)'
    <3>1. ReaderSees(q) /\ PlanSees(PlanOf[q])
      BY CallParts DEF PoolInv, Sees
    <3> QED BY <1>1, <1>5, <1>7, <2>1, <3>1 DEF ReaderSees, PlanSees, OfPlan, SeenSince
  <2> QED BY <2>2, <2>3 DEF Sees
<1> QED BY <1>6, <1>10, <1>11, <1>12 DEF PoolInv

LEMMA WriteKeeps == ASSUME PoolInv, NEW r \in Readers, WriteMaterials(r) PROVE PoolInv'
<1> DEFINE p == PlanOf[r] n == written[p] + 1
<1>1. /\ p \in PlanIds /\ reader[r].pc = "has" /\ reader[r].round < MaxWrites /\ n \in Nat
      /\ reader[r] \in ReaderRecord /\ UNCHANGED <<reads, call, slots>>
      /\ written' = [written EXCEPT ![p] = n] /\ written[p] \in Nat
  BY CallParts DEF PoolInv, PoolTypes, WriteMaterials
<1>2. reader' = [reader EXCEPT ![r].pc = "wrote", ![r].wrote = n]
  BY DEF WriteMaterials
<1>3. /\ reader'[r].pc = "wrote" /\ reader'[r].call = reader[r].call /\ reader'[r].round = reader[r].round
      /\ reader'[r].wrote = n
      /\ \A q \in Readers \ {r} : reader'[q] = reader[q]
  BY <1>1, <1>2 DEF PoolInv, PoolTypes, ReaderRecord
<1>4. written'[p] = n /\ \A q \in PlanIds : written'[q] \in Nat /\ written[q] \in Nat /\ written[q] <= written'[q]
  BY <1>1 DEF PoolInv, PoolTypes
<1>5. PoolTypes'
  <2>1. reader' \in [Readers -> ReaderRecord]
    <3> DEFINE new == [reader[r] EXCEPT !.pc = "wrote", !.wrote = n]
    <3>1. reader' = [reader EXCEPT ![r] = new]
      BY <1>2
    <3>2. new \in ReaderRecord
      BY <1>1 DEF ReaderRecord, ReaderPcs
    <3> QED BY <3>1, <3>2 DEF PoolInv, PoolTypes
  <2> QED BY <1>1, <1>3, <2>1 DEF PoolInv, PoolTypes
<1>6. \A q \in Readers : Own(q)' = Own(q)
  BY <1>3 DEF Own
<1>7. ASSUME NEW k \in Calls, Reading(k) PROVE Reading(k)'
  BY <1>1, <1>3, <1>6, <1>7, CallParts DEF Reading
<1>8. \A k \in Calls : Live(k) => Live(k)'
  BY <1>1, <1>7 DEF Live
<1>9. OpenIsRead'
  <2>1. SlotsRead'
    BY <1>1, <1>7 DEF PoolInv, PoolTypes, OpenIsRead, SlotsRead
  <2>2. ASSUME NEW q \in PlanIds PROVE PlanLive(q)'
    BY <1>1, <1>8 DEF PoolInv, PoolTypes, OpenIsRead, PlanLive
  <2>3. ASSUME NEW q \in Readers PROVE WaitLive(q)'
    BY <1>3, <1>8 DEF PoolInv, OpenIsRead, WaitLive, Sees, ReaderSees, OfPlan
  <2> QED BY <2>1, <2>2, <2>3 DEF OpenIsRead
<1>10. FutureIsFresh'
  BY <1>1, <1>3, CallParts DEF PoolInv, FutureIsFresh, NotBegun
<1>11. Sees'
  <2>1. ASSUME NEW q \in PlanIds PROVE PlanSees(q)'
    BY <1>1 DEF PoolInv, Sees, PlanSees, OfPlan
  <2>2. ASSUME NEW q \in Readers PROVE ReaderSees(q)'
    <3>1. CASE q = r
      BY <1>1, <1>3, <1>4, <3>1 DEF ReaderSees
    <3>2. CASE q # r
      <4>1. reader'[q] = reader[q] /\ ReaderSees(q) /\ PlanOf[q] \in PlanIds /\ reader[q].wrote \in Nat
        BY <1>3, <3>2, CallParts DEF PoolInv, Sees, PoolTypes, ReaderRecord
      <4>2. reader[q].wrote <= written'[PlanOf[q]]
        BY <1>4, <4>1 DEF ReaderSees
      <4> QED BY <1>1, <1>6, <4>1, <4>2 DEF ReaderSees, OfPlan, SeenSince
    <3> QED BY <3>1, <3>2
  <2> QED BY <2>1, <2>2 DEF Sees
<1> QED BY <1>5, <1>9, <1>10, <1>11 DEF PoolInv

(* The answer from before the write is forgotten.                          *)
LEMMA RefreshKeeps == ASSUME PoolInv, NEW r \in Readers, RefreshPlanMaterials(r) PROVE PoolInv'
<1> DEFINE p == PlanOf[r] n == reader[r].round + 1
<1>1. /\ p \in PlanIds /\ reader[r].pc = "wrote" /\ reader[r] \in ReaderRecord /\ n \in Rounds
      /\ reader[r].round \in Nat /\ UNCHANGED <<written, call, slots>>
      /\ reads' = [reads EXCEPT ![p] = Unset]
  BY CallParts DEF PoolInv, PoolTypes, RefreshPlanMaterials, ForgetRead, ReaderRecord, Rounds
<1>2. reader' = [reader EXCEPT ![r].pc = "ask", ![r].round = n]
  BY DEF RefreshPlanMaterials
<1>3. /\ reader'[r].pc = "ask" /\ reader'[r].call = reader[r].call /\ reader'[r].round = n
      /\ reader'[r].wrote = reader[r].wrote
      /\ \A q \in Readers \ {r} : reader'[q] = reader[q]
  BY <1>1, <1>2 DEF PoolInv, PoolTypes, ReaderRecord
<1>4. reads'[p] = Unset /\ \A q \in PlanIds \ {p} : reads'[q] = reads[q]
  BY <1>1 DEF PoolInv, PoolTypes
<1>5. PoolTypes'
  <2>1. reader' \in [Readers -> ReaderRecord]
    <3> DEFINE new == [reader[r] EXCEPT !.pc = "ask", !.round = n]
    <3>1. reader' = [reader EXCEPT ![r] = new]
      BY <1>2
    <3>2. new \in ReaderRecord
      BY <1>1 DEF ReaderRecord, ReaderPcs
    <3> QED BY <3>1, <3>2 DEF PoolInv, PoolTypes
  <2> QED BY <1>1, <1>3, <2>1 DEF PoolInv, PoolTypes
<1>6. \A q \in Readers \ {r} : Own(q)' = Own(q)
  BY <1>3 DEF Own
<1>7. ASSUME NEW k \in Calls, Reading(k) PROVE Reading(k)'
  BY <1>1, <1>3, <1>6, <1>7, CallParts DEF Reading
<1>8. \A k \in Calls : Live(k) => Live(k)'
  BY <1>1, <1>7 DEF Live
<1>9. OpenIsRead'
  <2>1. SlotsRead'
    BY <1>1, <1>7 DEF PoolInv, PoolTypes, OpenIsRead, SlotsRead
  <2>2. ASSUME NEW q \in PlanIds PROVE PlanLive(q)'
    BY <1>4, <1>8 DEF PoolInv, PoolTypes, OpenIsRead, PlanLive
  <2>3. ASSUME NEW q \in Readers PROVE WaitLive(q)'
    BY <1>3, <1>8 DEF PoolInv, OpenIsRead, WaitLive, Sees, ReaderSees, OfPlan
  <2> QED BY <2>1, <2>2, <2>3 DEF OpenIsRead
<1>10. FutureIsFresh'
  <2>1. \A k \in Calls : NotBegun(k)' => NotBegun(k)
    BY <1>1, <1>3, CallParts DEF NotBegun
  <2> QED BY <1>1, <2>1 DEF PoolInv, FutureIsFresh
<1>11. Sees'
  <2>1. ASSUME NEW q \in PlanIds PROVE PlanSees(q)'
    BY <1>4 DEF PoolInv, Sees, PlanSees, OfPlan
  <2>2. ASSUME NEW q \in Readers PROVE ReaderSees(q)'
    <3>1. ReaderSees(q) /\ PlanOf[q] \in PlanIds
      BY CallParts DEF PoolInv, Sees
    <3>2. CASE q = r
      BY <1>1, <1>3, <1>4, <3>1, <3>2 DEF ReaderSees
    <3>3. CASE q # r
      BY <1>1, <1>3, <1>4, <1>6, <3>1, <3>3 DEF ReaderSees, OfPlan, SeenSince
    <3> QED BY <3>2, <3>3
  <2> QED BY <2>1, <2>2 DEF Sees
<1> QED BY <1>5, <1>9, <1>10, <1>11 DEF PoolInv

LEMMA PoolKept == PoolInv /\ [ReadPoolNext]_poolVars => PoolInv'
<1> SUFFICES ASSUME PoolInv, [ReadPoolNext]_poolVars PROVE PoolInv'
  OBVIOUS
<1>1. CASE UNCHANGED <<written, reads, call, reader, slots>>
  BY <1>1 DEF PoolInv, PoolTypes, OpenIsRead, SlotsRead, PlanLive, WaitLive, Live, Reading, Own,
              FutureIsFresh, NotBegun, Sees, PlanSees, ReaderSees, OfPlan, SeenSince
<1>2. ASSUME NEW r \in Readers, WaitEnds(r) \/ Done(r) PROVE PoolInv'
  BY <1>2, ReaderLeaves DEF WaitEnds, Done
<1> QED BY <1>1, <1>2, AskKeeps, RunReadKeeps, FetchKeeps, GiveUpPagesKeeps, EndReadKeeps, WriteKeeps,
           RefreshKeeps DEF ReadPoolNext, ReaderStep, StopBatch, poolVars

-----------------------------------------------------------------------------
(* Whoever reads materials back after a write sees the write, whichever    *)
(* goroutine reads them.                                                   *)
THEOREM RefreshIsFresh == ReadPoolSpec => []RefreshSeesWrite
<1>1. PoolInv => RefreshSeesWrite
  BY DEF PoolInv, Sees, ReaderSees, SeenSince, RefreshSeesWrite
<1> QED BY <1>1, PoolInitially, PoolKept, PTL DEF ReadPoolSpec

(* Slots are held by goroutines that read, and whoever waits, waits for    *)
(* one that reads.                                                         *)
THEOREM WaitersAreServed == ReadPoolSpec => []NobodyWaitsForAWaiter
<1>1. PoolInv => NobodyWaitsForAWaiter
  BY DEF PoolInv, OpenIsRead, SlotsRead, WaitLive, Live, Reading, NobodyWaitsForAWaiter
<1> QED BY <1>1, PoolInitially, PoolKept, PTL DEF ReadPoolSpec

-----------------------------------------------------------------------------
(***************************************************************************)
(* AuthorizationStore: the two files of a channel implement one atomic     *)
(* state, for any processes, contents and number of generations.           *)
(***************************************************************************)

StorePcs == {"idle", "reading", "locked", "loading", "loaded", "changed", "written", "leaving"}
StoreUser == [pc : StorePcs, pointer : States \cup {Absent},
              loaded : States \cup {Absent, Corrupt, Unread}, next : States \cup {Absent}]

(* A manifest is filed under the generation of its state.                  *)
StoreTypes ==
    /\ manifests \in [Generations -> States \cup {Absent}]
    /\ current \in States \cup {Absent}
    /\ channelLock \in StoreUsers \cup {Absent}
    /\ user \in [StoreUsers -> StoreUser]

(* Whatever a current.json names, now or when a load read it, is there.    *)
Named(pointer) == pointer # Absent => manifests[pointer.generation] = pointer
PointersNamed == Named(current) /\ \A u \in StoreUsers : Named(user[u].pointer)

(* An update holds the lock from its load to its end, so what it loaded is *)
(* still current, and the generation it chose still free.                  *)
Updating == {"locked", "loading", "loaded", "changed", "written"}
UpdatesHeld ==
    \A u \in StoreUsers :
        /\ user[u].pc \in Updating => channelLock = u
        /\ user[u].pc = "loading" => user[u].pointer = current
        /\ user[u].pc \in {"loaded", "changed", "written"} => user[u].loaded = current
        /\ user[u].pc \in {"changed", "written"} => user[u].next \in States
        /\ user[u].pc = "changed" => manifests[user[u].next.generation] \in {Absent, user[u].next}

StoreInv == StoreTypes /\ PointersNamed /\ UpdatesHeld

-----------------------------------------------------------------------------
LEMMA StoreInitially == StoreInit => StoreInv
BY StoreAssumption DEF StoreInit, StoreInv, StoreTypes, PointersNamed, Named, UpdatesHeld, Updating,
       NewUser, StoreUser, StorePcs

LEMMA GenerationOf == ASSUME NEW s \in States PROVE s.generation \in Generations /\ s # Absent
BY StoreAssumption DEF States

(* What has its manifest keeps it: only a free one is written.             *)
LEMMA ManifestsStay ==
    ASSUME StoreInv, NEW u \in StoreUsers, WriteManifest(u), NEW p \in States \cup {Absent}, Named(p)
    PROVE  Named(p)'
<1>1. CASE p = Absent
  BY <1>1 DEF Named
<1>2. CASE p \in States
  <2>1. p.generation \in Generations /\ p # Absent /\ manifests[p.generation] = p
    BY <1>2, GenerationOf DEF Named
  <2>2. /\ user[u].next \in States
        /\ manifests[user[u].next.generation] \in {Absent, user[u].next}
    BY DEF WriteManifest, StoreInv, UpdatesHeld
  <2>3. manifests'[p.generation] = p
    BY <2>1, <2>2 DEF WriteManifest, StoreInv, StoreTypes
  <2> QED BY <2>3 DEF Named
<1> QED BY <1>1, <1>2

LEMMA StoreKept == StoreInv /\ [StoreNext]_storeVars => StoreInv'
<1> SUFFICES ASSUME StoreInv, [StoreNext]_storeVars PROVE StoreInv'
  OBVIOUS
<1>1. CASE UNCHANGED storeVars
  BY <1>1 DEF StoreInv, StoreTypes, PointersNamed, Named, UpdatesHeld, storeVars
<1>2. ASSUME NEW u \in StoreUsers, StoreStep(u) PROVE StoreInv'
  <2> USE DEF Goes, Going
  <2> user[u] \in StoreUser
    BY DEF StoreInv, StoreTypes
  <2>1. CASE ReadCurrent(u)
    <3>1. StoreTypes'
      BY <2>1 DEF ReadCurrent, StoreInv, StoreTypes, StoreUser, StorePcs
    <3>2. PointersNamed'
      BY <2>1 DEF ReadCurrent, StoreInv, StoreTypes, StoreUser, PointersNamed, Named
    <3>3. UpdatesHeld'
      BY <2>1 DEF ReadCurrent, StoreInv, StoreTypes, StoreUser, UpdatesHeld, Updating
    <3> QED BY <3>1, <3>2, <3>3 DEF StoreInv
  <2>2. CASE ReadManifest(u)
    <3>1. ManifestOf(user[u].pointer) = user[u].pointer
      BY DEF StoreInv, PointersNamed, Named, ManifestOf
    <3>2. user[u].pointer \in States \cup {Absent} /\ user[u].pointer # Corrupt
      BY StoreAssumption DEF StoreUser
    <3>3. user' = [user EXCEPT ![u] = [user[u] EXCEPT !.pointer = Absent, !.loaded = user[u].pointer,
                      !.pc = IF user[u].pc = "reading" THEN "leaving" ELSE "loaded"]]
      BY <2>2, <3>1, <3>2 DEF ReadManifest
    <3>4. user[u].pc \in {"reading", "loading"} /\ UNCHANGED <<manifests, current, channelLock>>
      BY <2>2 DEF ReadManifest
    <3>5. StoreTypes'
      BY <3>2, <3>3, <3>4 DEF StoreInv, StoreTypes, StoreUser, StorePcs
    <3>6. PointersNamed'
      BY <3>3, <3>4 DEF StoreInv, StoreTypes, StoreUser, PointersNamed, Named
    <3>7. UpdatesHeld'
      BY <3>3, <3>4 DEF StoreInv, StoreTypes, StoreUser, UpdatesHeld, Updating
    <3> QED BY <3>5, <3>6, <3>7 DEF StoreInv
  <2>3. CASE UpdateChannel(u)
    <3>1. StoreTypes'
      BY <2>3 DEF UpdateChannel, StoreInv, StoreTypes, StoreUser, StorePcs
    <3>2. PointersNamed'
      BY <2>3 DEF UpdateChannel, StoreInv, StoreTypes, StoreUser, PointersNamed, Named
    <3>3. UpdatesHeld'
      BY <2>3, StoreAssumption DEF UpdateChannel, LockFileFree, StoreInv, StoreTypes, StoreUser, UpdatesHeld, Updating
    <3> QED BY <3>1, <3>2, <3>3 DEF StoreInv
  <2>4. CASE ChangeState(u)
    <3>1. PICK content \in Contents, g \in Generations :
            LET state == [generation |-> g, content |-> content]
            IN /\ FreeFor(state, g)
               /\ user' = [user EXCEPT ![u] = [user[u] EXCEPT !.pc = "changed", !.next = state]]
      BY <2>4 DEF ChangeState
    <3> DEFINE state == [generation |-> g, content |-> content]
    <3>2. state \in States /\ state.generation = g
      BY DEF States
    <3>3. [state EXCEPT !.generation = g] = state
      OBVIOUS
    <3>4. manifests[state.generation] \in {Absent, state}
      BY <3>1, <3>2, <3>3 DEF FreeFor
    <3>5. user[u].pc = "loaded" /\ UNCHANGED <<manifests, current, channelLock>>
      BY <2>4 DEF ChangeState
    <3>6. user' = [user EXCEPT ![u] = [user[u] EXCEPT !.pc = "changed", !.next = state]]
      BY <3>1
    <3> HIDE DEF state
    <3>7. StoreTypes'
      BY <3>2, <3>5, <3>6 DEF StoreInv, StoreTypes, StoreUser, StorePcs
    <3>8. PointersNamed'
      BY <3>5, <3>6 DEF StoreInv, StoreTypes, StoreUser, PointersNamed, Named
    <3>9. UpdatesHeld'
      BY <3>2, <3>4, <3>5, <3>6 DEF StoreInv, StoreTypes, StoreUser, UpdatesHeld, Updating
    <3> QED BY <3>7, <3>8, <3>9 DEF StoreInv
  <2>5. CASE WriteManifest(u)
    <3>1. user[u].next \in States /\ user[u].next.generation \in Generations
      BY <2>5, GenerationOf DEF WriteManifest, StoreInv, UpdatesHeld
    <3>2. StoreTypes'
      BY <2>5, <3>1 DEF WriteManifest, StoreInv, StoreTypes, StoreUser, StorePcs
    <3>3. ASSUME NEW v \in StoreUsers PROVE user'[v].pointer = user[v].pointer
      BY <2>5 DEF WriteManifest, StoreInv, StoreTypes, StoreUser
    <3>4. PointersNamed'
      <4>1. Named(current)'
        BY <2>5, ManifestsStay DEF WriteManifest, StoreInv, StoreTypes, PointersNamed, Named
      <4>2. ASSUME NEW v \in StoreUsers PROVE Named(user[v].pointer)'
        <5>1. user[v].pointer \in States \cup {Absent} /\ Named(user[v].pointer)
          BY DEF StoreInv, StoreTypes, StoreUser, PointersNamed
        <5> DEFINE p == user[v].pointer
        <5> HIDE DEF p
        <5>2. p # Absent => manifests'[p.generation] = p
          BY <2>5, <5>1, ManifestsStay DEF Named, p
        <5> QED BY <5>2, <3>3 DEF Named, p
      <4> QED BY <4>1, <4>2 DEF PointersNamed
    <3>5. UpdatesHeld'
      <4>1. \A v \in StoreUsers : v # u => user[v].pc \notin Updating /\ user'[v] = user[v]
        BY <2>5 DEF WriteManifest, StoreInv, StoreTypes, UpdatesHeld, Updating
      <4>2. /\ user'[u].pc = "written" /\ user'[u].loaded = user[u].loaded /\ user'[u].next = user[u].next
            /\ user[u].pc = "changed"
        BY <2>5 DEF WriteManifest, StoreInv, StoreTypes, StoreUser
      <4> QED BY <2>5, <4>1, <4>2 DEF WriteManifest, StoreInv, UpdatesHeld, Updating
    <3> QED BY <3>2, <3>4, <3>5 DEF StoreInv
  <2>6. CASE WriteCurrent(u)
    <3>1. user[u].next \in States /\ manifests[user[u].next.generation] = user[u].next
      BY <2>6 DEF WriteCurrent, StoreInv, UpdatesHeld
    <3>2. StoreTypes'
      BY <2>6, <3>1 DEF WriteCurrent, StoreInv, StoreTypes, StoreUser, StorePcs
    <3>3. PointersNamed'
      BY <2>6, <3>1 DEF WriteCurrent, StoreInv, StoreTypes, StoreUser, PointersNamed, Named
    <3>4. UpdatesHeld'
      BY <2>6 DEF WriteCurrent, StoreInv, StoreTypes, StoreUser, UpdatesHeld, Updating
    <3> QED BY <3>2, <3>3, <3>4 DEF StoreInv
  <2>7. CASE ReleaseChannel(u)
    <3>1. StoreTypes'
      BY <2>7 DEF ReleaseChannel, NewUser, StoreInv, StoreTypes, StoreUser, StorePcs
    <3>2. PointersNamed'
      BY <2>7 DEF ReleaseChannel, NewUser, StoreInv, StoreTypes, StoreUser, PointersNamed, Named
    <3>3. UpdatesHeld'
      BY <2>7 DEF ReleaseChannel, NewUser, StoreInv, StoreTypes, StoreUser, UpdatesHeld, Updating
    <3> QED BY <3>1, <3>2, <3>3 DEF StoreInv
  <2> QED BY <1>2, <2>1, <2>2, <2>3, <2>4, <2>5, <2>6, <2>7 DEF StoreStep
<1> QED BY <1>1, <1>2 DEF StoreNext

-----------------------------------------------------------------------------
(* Steps of the atomic state                                               *)

StoreValue == ManifestOf(current)
Given == [u \in StoreUsers |-> AnswerOf(u)]

(* A load that is under way or done has the value its current.json named.  *)
LEMMA LoadsNamed == ASSUME StoreInv PROVE StoreValue = current
BY DEF StoreInv, PointersNamed, Named, StoreValue, ManifestOf

LEMMA AnswersNamed ==
    ASSUME StoreInv, NEW u \in StoreUsers
    PROVE  AnswerOf(u) = IF user[u].pc \in {"reading", "loading"} THEN user[u].pointer ELSE user[u].loaded
BY DEF StoreInv, PointersNamed, Named, AnswerOf, ManifestOf

(* What one user's step does to its answer and to no other's.              *)
LEMMA OneAnswer ==
    ASSUME StoreInv, StoreInv', NEW u \in StoreUsers, NEW new, user' = [user EXCEPT ![u] = new]
    PROVE  Given' = [Given EXCEPT ![u] = IF new.pc \in {"reading", "loading"} THEN new.pointer ELSE new.loaded]
<1>1. ASSUME NEW v \in StoreUsers
      PROVE  AnswerOf(v)' = IF v = u THEN IF new.pc \in {"reading", "loading"} THEN new.pointer ELSE new.loaded
                            ELSE AnswerOf(v)
  <2>1. AnswerOf(v)' = IF user'[v].pc \in {"reading", "loading"} THEN user'[v].pointer ELSE user'[v].loaded
    BY DEF StoreInv, PointersNamed, Named, AnswerOf, ManifestOf
  <2>2. user'[v] = IF v = u THEN new ELSE user[v]
    BY DEF StoreInv, StoreTypes
  <2> QED BY <2>1, <2>2, AnswersNamed
<1> QED BY <1>1 DEF Given

LEMMA NoAnswer ==
    ASSUME StoreInv, StoreInv', NEW u \in StoreUsers, NEW new, user' = [user EXCEPT ![u] = new],
           new.pc \notin {"reading", "loading"}, new.loaded = Given[u]
    PROVE  Given' = Given
<1>1. Given' = [Given EXCEPT ![u] = IF new.pc \in {"reading", "loading"} THEN new.pointer ELSE new.loaded]
  BY OneAnswer
<1>2. Given' = [Given EXCEPT ![u] = Given[u]]
  BY <1>1
<1>3. Given = [Given EXCEPT ![u] = Given[u]]
  BY DEF Given
<1> QED BY <1>2, <1>3

LEMMA StoreSteps ==
    ASSUME StoreInv, StoreInv', [StoreNext]_storeVars
    PROVE  [State!Next]_<<StoreValue, Given>>
<1>1. CASE UNCHANGED storeVars
  BY <1>1 DEF storeVars, StoreValue, Given, AnswerOf, ManifestOf
<1>2. ASSUME NEW u \in StoreUsers, StoreStep(u) PROVE [State!Next]_<<StoreValue, Given>>
  <2> USE DEF Goes, Going
  <2> user \in [StoreUsers -> StoreUser] /\ user[u] \in StoreUser
    BY DEF StoreInv, StoreTypes
  <2>v. StoreValue = current /\ StoreValue' = current'
    BY DEF StoreInv, PointersNamed, Named, StoreValue, ManifestOf
  <2>a. Given[u] = IF user[u].pc \in {"reading", "loading"} THEN user[u].pointer ELSE user[u].loaded
    BY AnswersNamed DEF Given
  <2>1. CASE ReadCurrent(u)
    <3> DEFINE new == [user[u] EXCEPT !.pc = IF user[u].pc = "idle" THEN "reading" ELSE "loading", !.pointer = current]
    <3>1. user' = [user EXCEPT ![u] = new] /\ current' = current
      BY <2>1 DEF ReadCurrent
    <3>2. new.pc \in {"reading", "loading"} /\ new.pointer = current
      BY DEF StoreUser
    <3> HIDE DEF new
    <3>3. Given' = [Given EXCEPT ![u] = StoreValue]
      BY <3>1, <3>2, <2>v, OneAnswer
    <3> QED BY <3>1, <3>3, <2>v DEF State!Next, State!Load, StoreValue, Given
  <2>2. CASE ReadManifest(u)
    <3>1. ManifestOf(user[u].pointer) = user[u].pointer
      BY DEF StoreInv, PointersNamed, Named, ManifestOf
    <3> DEFINE new == [user[u] EXCEPT !.pointer = Absent, !.loaded = user[u].pointer,
                          !.pc = IF user[u].pc = "reading" \/ user[u].pointer = Corrupt THEN "leaving" ELSE "loaded"]
    <3>2. user' = [user EXCEPT ![u] = new] /\ current' = current /\ user[u].pc \in {"reading", "loading"}
      BY <2>2, <3>1 DEF ReadManifest
    <3>3. new.pc \notin {"reading", "loading"} /\ new.loaded = user[u].pointer
      BY DEF StoreUser
    <3> HIDE DEF new
    <3>4. Given' = Given
      BY <3>2, <3>3, <2>a, NoAnswer
    <3> QED BY <3>2, <3>4, <2>v
  <2>3. CASE UpdateChannel(u)
    <3> DEFINE new == [user[u] EXCEPT !.pc = "locked"]
    <3>1. user' = [user EXCEPT ![u] = new] /\ current' = current /\ user[u].pc = "idle"
      BY <2>3 DEF UpdateChannel
    <3>2. new.pc \notin {"reading", "loading"} /\ new.loaded = user[u].loaded
      BY DEF StoreUser
    <3> HIDE DEF new
    <3>3. Given' = Given
      BY <3>1, <3>2, <2>a, NoAnswer
    <3> QED BY <3>1, <3>3, <2>v
  <2>4. CASE ChangeState(u)
    <3>1. PICK state : user' = [user EXCEPT ![u] = [user[u] EXCEPT !.pc = "changed", !.next = state]]
      BY <2>4 DEF ChangeState
    <3> DEFINE new == [user[u] EXCEPT !.pc = "changed", !.next = state]
    <3>2. user' = [user EXCEPT ![u] = new] /\ current' = current /\ user[u].pc = "loaded"
      BY <2>4, <3>1 DEF ChangeState
    <3>3. new.pc \notin {"reading", "loading"} /\ new.loaded = user[u].loaded
      BY DEF StoreUser
    <3> HIDE DEF new
    <3>4. Given' = Given
      BY <3>2, <3>3, <2>a, NoAnswer
    <3> QED BY <3>2, <3>4, <2>v
  <2>5. CASE WriteManifest(u)
    <3> DEFINE new == [user[u] EXCEPT !.pc = "written"]
    <3>1. user' = [user EXCEPT ![u] = new] /\ current' = current /\ user[u].pc = "changed"
      BY <2>5 DEF WriteManifest
    <3>2. new.pc \notin {"reading", "loading"} /\ new.loaded = user[u].loaded
      BY DEF StoreUser
    <3> HIDE DEF new
    <3>3. Given' = Given
      BY <3>1, <3>2, <2>a, NoAnswer
    <3> QED BY <3>1, <3>3, <2>v
  <2>6. CASE WriteCurrent(u)
    <3> DEFINE new == [user[u] EXCEPT !.pc = "leaving"]
    <3>1. user' = [user EXCEPT ![u] = new] /\ current' = user[u].next /\ user[u].pc = "written"
      BY <2>6 DEF WriteCurrent
    <3>2. new.pc \notin {"reading", "loading"} /\ new.loaded = user[u].loaded
      BY DEF StoreUser
    <3>3. user[u].loaded = current /\ user[u].next \in States
      BY <3>1 DEF StoreInv, UpdatesHeld
    <3> HIDE DEF new
    <3>4. Given' = Given
      BY <3>1, <3>2, <2>a, NoAnswer
    <3>5. Given[u] = StoreValue /\ StoreValue' \in States
      BY <3>1, <3>3, <2>a, <2>v
    <3> QED BY <3>4, <3>5 DEF State!Next, State!Replace, StoreValue, Given
  <2>7. CASE ReleaseChannel(u)
    <3>1. user' = [user EXCEPT ![u] = NewUser] /\ current' = current
      BY <2>7 DEF ReleaseChannel
    <3>2. NewUser.pc \notin {"reading", "loading"} /\ NewUser.loaded = Unread
      BY DEF NewUser
    <3>3. Given' = [Given EXCEPT ![u] = Unread]
      BY <3>1, <3>2, OneAnswer
    <3> QED BY <3>1, <3>3, <2>v DEF State!Next, State!Leave, StoreValue, Given
  <2> QED BY <1>2, <2>1, <2>2, <2>3, <2>4, <2>5, <2>6, <2>7 DEF StoreStep
<1> QED BY <1>1, <1>2 DEF StoreNext

(* Loads and commits of the two files are loads and replacements of one    *)
(* state: no load ever finds a manifest missing or changed, each gets the  *)
(* state of one moment, and no update is lost, whatever is cut off.        *)
THEOREM OneState == StoreSpec => StateIsAtomic
<1>1. StoreInit => State!Init
  <2> SUFFICES ASSUME StoreInit PROVE State!Init
    OBVIOUS
  <2>1. ManifestOf(current) = Absent
    BY DEF StoreInit, ManifestOf
  <2>2. [u \in StoreUsers |-> AnswerOf(u)] = [u \in StoreUsers |-> Unread]
    BY DEF StoreInit, AnswerOf, NewUser
  <2> QED BY <2>1, <2>2 DEF State!Init
<1>2. StoreInv /\ StoreInv' /\ [StoreNext]_storeVars
      => [State!Next]_<<ManifestOf(current), [u \in StoreUsers |-> AnswerOf(u)]>>
  BY StoreSteps DEF StoreValue, Given
<1> QED BY <1>1, <1>2, StoreInitially, StoreKept, PTL DEF StoreSpec, StateIsAtomic, State!Spec


-----------------------------------------------------------------------------
(***************************************************************************)
(* AccountReport: the report tells of every selected account what became   *)
(* of its query, for any accounts, channels and slots.                     *)
(***************************************************************************)

ReportTypes ==
    /\ selected \subseteq Accounts
    /\ task \in [Accounts -> {"none", "waiting", "running", "leased", "ok", "failed"}]

(* A goroutine has a slot exactly while it queries.                        *)
SlotsFollowTasks ==
    /\ holders = {a \in Accounts : task[a] \in {"running", "leased"}}
    /\ Cardinality(holders) <= Concurrency

(* An answer is given when every task is over, and of what they ended with. *)
ResultIsFinal ==
    /\ \A a \in Accounts : task[a] # "none" => a \in selected
    /\ result.state = "done"
       => /\ selected # {} /\ \A a \in selected : task[a] \in {"ok", "failed"}
          /\ result.rows = [a \in selected |-> task[a]]
          /\ result.ok <=> \A a \in selected : task[a] = "ok"
          /\ result.summary = BuildAccountReportSummary

ReportInv == ReportTypes /\ SlotsFollowTasks /\ ResultIsFinal

LEMMA ReportInitially == ReportInit => ReportInv
<1> SUFFICES ASSUME ReportInit PROVE ReportInv
  OBVIOUS
<1>1. ReportTypes
  BY DEF ReportInit, ReportTypes
<1>2. SlotsFollowTasks
  BY FS_EmptySet, AccountReportAssumption DEF ReportInit, SlotsFollowTasks
<1>3. ResultIsFinal
  BY DEF ReportInit, ResultIsFinal, NoResult
<1> QED BY <1>1, <1>2, <1>3 DEF ReportInv

LEMMA LimitBounds ==
    ASSUME ReportTypes PROVE Limit \in Nat /\ Limit <= Concurrency
<1>1. Cardinality(selected) \in Nat
  BY AccountReportAssumption, FS_Subset, FS_CardinalityType DEF ReportTypes
<1>2. Concurrency \in Nat
  BY AccountReportAssumption
<1> DEFINE S == {Concurrency, Cardinality(selected)}
<1>3. \E x \in S : \A y \in S : x <= y
  BY <1>1, <1>2
<1>4. Min(S) \in S /\ \A y \in S : Min(S) <= y
  BY <1>3 DEF Min
<1> QED BY <1>1, <1>2, <1>4 DEF Limit

(* A task goes on, nothing else does: nobody has been answered yet.        *)
LEMMA TaskMoves ==
    ASSUME ReportInv, NEW a \in Accounts, task[a] \in {"waiting", "running", "leased"},
           NEW s \in {"running", "leased", "ok", "failed"}, task' = [task EXCEPT ![a] = s],
           holders' = {b \in Accounts : task'[b] \in {"running", "leased"}},
           Cardinality(holders') <= Concurrency, UNCHANGED <<selected, result>>
    PROVE  ReportInv'
<1>1. a \in selected /\ result.state # "done"
  BY DEF ReportInv, ResultIsFinal
<1>2. ReportTypes'
  BY DEF ReportInv, ReportTypes
<1>3. SlotsFollowTasks'
  BY DEF SlotsFollowTasks
<1>4. ResultIsFinal'
  BY <1>1 DEF ReportInv, ReportTypes, ResultIsFinal
<1> QED BY <1>2, <1>3, <1>4 DEF ReportInv

LEMMA SlotFreed ==
    ASSUME ReportInv, NEW a \in Accounts, task[a] \in {"running", "leased"},
           NEW s \in {"ok", "failed"}, task' = [task EXCEPT ![a] = s],
           holders' = holders \ {a}, UNCHANGED <<selected, result>>
    PROVE  ReportInv'
<1>1. holders' = {b \in Accounts : task'[b] \in {"running", "leased"}}
  BY DEF ReportInv, ReportTypes, SlotsFollowTasks
<1>2. Cardinality(holders') <= Concurrency
  <2>1. IsFiniteSet(holders)
    BY AccountReportAssumption, FS_Subset DEF ReportInv, SlotsFollowTasks
  <2>2. Cardinality(holders') <= Cardinality(holders) /\ Cardinality(holders) \in Nat
        /\ Cardinality(holders') \in Nat
    BY <2>1, FS_Subset, FS_CardinalityType
  <2> QED BY <2>2, AccountReportAssumption DEF ReportInv, SlotsFollowTasks
<1> QED BY <1>1, <1>2, TaskMoves

(* The summary is one of what the accounts' queries ended with.            *)
LEMMA SummaryStays ==
    ASSUME UNCHANGED <<selected, task>>
    PROVE  BuildAccountReportSummary' = BuildAccountReportSummary
<1>1. Successful' = Successful
  BY DEF Successful
<1>2. Total(Successful)' = Total(Successful)
  BY <1>1
<1>3. ComparableGMV' = ComparableGMV
  BY <1>1 DEF ComparableGMV, Channel
<1> QED BY <1>1, <1>2, <1>3 DEF BuildAccountReportSummary

LEMMA ReportSteps == ReportInv /\ [ReportNext]_reportVars => ReportInv'
<1> SUFFICES ASSUME ReportInv, [ReportNext]_reportVars PROVE ReportInv'
  OBVIOUS
<1>1. CASE Report
  <2>1. PICK channels \in SUBSET Channels \ {{}}, includeDisabled \in BOOLEAN :
          LET accounts == SelectAccounts(channels, includeDisabled)
          IN IF accounts = {}
             THEN result' = [NoResult EXCEPT !.state = "refused"] /\ UNCHANGED <<selected, task>>
             ELSE /\ selected' = accounts
                  /\ task' = [a \in Accounts |-> IF a \in accounts THEN "waiting" ELSE "none"]
                  /\ UNCHANGED result
    BY <1>1 DEF Report
  <2>2. selected = {} /\ result.state = "none" /\ UNCHANGED <<holders, cancelled>>
    BY <1>1 DEF Report
  <2>3. SelectAccounts(channels, includeDisabled) \subseteq Accounts
    BY DEF SelectAccounts
  <2>4. \A a \in Accounts : task[a] = "none"
    BY <2>2 DEF ReportInv, ResultIsFinal
  <2>5. holders = {}
    BY <2>4 DEF ReportInv, SlotsFollowTasks
  <2>6. CASE SelectAccounts(channels, includeDisabled) = {}
    <3>1. result'.state = "refused" /\ UNCHANGED <<selected, task>>
      BY <2>1, <2>6 DEF NoResult
    <3> QED BY <2>2, <3>1 DEF ReportInv, ReportTypes, SlotsFollowTasks, ResultIsFinal
  <2>7. CASE SelectAccounts(channels, includeDisabled) # {}
    <3>1. /\ selected' = SelectAccounts(channels, includeDisabled) /\ UNCHANGED result
          /\ task' = [a \in Accounts |-> IF a \in selected' THEN "waiting" ELSE "none"]
      BY <2>1, <2>7
    <3>2. ReportTypes'
      BY <2>3, <3>1 DEF ReportTypes
    <3>3. SlotsFollowTasks'
      BY <2>2, <2>5, <3>1 DEF ReportInv, SlotsFollowTasks
    <3>4. ResultIsFinal'
      BY <2>2, <3>1 DEF ResultIsFinal
    <3> QED BY <3>2, <3>3, <3>4 DEF ReportInv
  <2> QED BY <2>6, <2>7
<1>2. CASE Cancel
  BY <1>2 DEF Cancel, ReportInv, ReportTypes, SlotsFollowTasks, ResultIsFinal
<1>3. CASE Summarize
  <2>1. /\ result'.state = "done" /\ (result'.ok <=> \A a \in selected : task[a] = "ok")
        /\ result'.rows = [a \in selected |-> task[a]] /\ result'.summary = BuildAccountReportSummary
    BY <1>3 DEF Summarize
  <2>2. /\ selected # {} /\ \A a \in selected : task[a] \in {"ok", "failed"}
        /\ UNCHANGED <<selected, task, holders, cancelled>>
    BY <1>3 DEF Summarize
  <2>3. BuildAccountReportSummary' = BuildAccountReportSummary
    BY <2>2, SummaryStays
  <2> QED BY <2>1, <2>2, <2>3 DEF ReportInv, ReportTypes, SlotsFollowTasks, ResultIsFinal
<1>4. ASSUME NEW a \in Accounts, Task(a) PROVE ReportInv'
  <2>1. CASE Acquire(a)
    <3>1. /\ task[a] = "waiting" /\ task' = [task EXCEPT ![a] = "running"]
          /\ Cardinality(holders) < Limit /\ holders' = holders \cup {a}
          /\ UNCHANGED <<selected, cancelled, result>>
      BY <2>1 DEF Acquire
    <3>2. holders' = {b \in Accounts : task'[b] \in {"running", "leased"}}
      BY <3>1 DEF ReportInv, ReportTypes, SlotsFollowTasks
    <3>3. IsFiniteSet(holders) /\ a \notin holders
      BY <3>1, AccountReportAssumption, FS_Subset DEF ReportInv, SlotsFollowTasks
    <3>4. Cardinality(holders') = Cardinality(holders) + 1 /\ Cardinality(holders) \in Nat
      BY <3>1, <3>3, FS_AddElement, FS_CardinalityType
    <3>5. Cardinality(holders') <= Concurrency
      BY <3>1, <3>4, LimitBounds, AccountReportAssumption DEF ReportInv
    <3> QED BY <3>1, <3>2, <3>5, TaskMoves
  <2>2. CASE GiveUp(a)
    <3>1. /\ task[a] = "waiting" /\ task' = [task EXCEPT ![a] = "failed"]
          /\ UNCHANGED <<selected, holders, cancelled, result>>
      BY <2>2 DEF GiveUp
    <3>2. holders' = {b \in Accounts : task'[b] \in {"running", "leased"}}
      BY <3>1 DEF ReportInv, ReportTypes, SlotsFollowTasks
    <3>3. Cardinality(holders') <= Concurrency
      BY <3>1 DEF ReportInv, SlotsFollowTasks
    <3> QED BY <3>1, <3>2, <3>3, TaskMoves
  <2>3. CASE Lease(a)
    <3>1. CASE EndTask(a, "failed")
      BY <2>3, <3>1, SlotFreed DEF Lease, EndTask, Release
    <3>2. CASE task' = [task EXCEPT ![a] = "leased"] /\ UNCHANGED <<selected, holders, cancelled, result>>
      <4>1. task[a] = "running"
        BY <2>3 DEF Lease
      <4>2. holders' = {b \in Accounts : task'[b] \in {"running", "leased"}}
        BY <4>1, <3>2 DEF ReportInv, ReportTypes, SlotsFollowTasks
      <4>3. Cardinality(holders') <= Concurrency
        BY <3>2 DEF ReportInv, SlotsFollowTasks
      <4> QED BY <3>2, <4>1, <4>2, <4>3, TaskMoves
    <3> QED BY <2>3, <3>1, <3>2 DEF Lease
  <2>4. CASE QueryAccount(a)
    <3>1. task[a] = "leased"
      BY <2>4 DEF QueryAccount
    <3>2. PICK outcome \in {"ok", "failed"} : EndTask(a, outcome)
      BY <2>4 DEF QueryAccount
    <3> QED BY <3>1, <3>2, SlotFreed DEF EndTask, Release
  <2> QED BY <1>4, <2>1, <2>2, <2>3, <2>4 DEF Task
<1>5. CASE UNCHANGED reportVars
  <2>1. BuildAccountReportSummary' = BuildAccountReportSummary
    BY <1>5, SummaryStays DEF reportVars
  <2> QED BY <1>5, <2>1 DEF reportVars, ReportInv, ReportTypes, SlotsFollowTasks, ResultIsFinal
<1> QED BY <1>1, <1>2, <1>3, <1>4, <1>5 DEF ReportNext

(* Two accounts of different channels make two of the set of channels.     *)
LEMMA GMVOfOneChannel ==
    ComparableGMV \subseteq Marketing \/ ComparableGMV \cap Marketing = {}
<1> DEFINE S == {Channel(a) : a \in Successful}
<1> SUFFICES ASSUME NEW a \in ComparableGMV, a \in Marketing,
                    NEW b \in ComparableGMV, b \notin Marketing
             PROVE  FALSE
  OBVIOUS
<1>1. Cardinality(S) <= 1 /\ a \in Successful /\ b \in Successful
  BY DEF ComparableGMV
<1>2. {"marketing", "qianchuan"} \subseteq S
  <2>1. Channel(a) = "marketing" /\ Channel(b) = "qianchuan"
    BY DEF Channel
  <2> QED BY <1>1, <2>1
<1>3. S \subseteq {"marketing", "qianchuan"}
  BY DEF Channel
<1>4. IsFiniteSet({"marketing"}) /\ Cardinality({"marketing"}) = 1
  BY FS_Singleton
<1>5. Cardinality({"marketing"} \cup {"qianchuan"})
        = IF "qianchuan" \in {"marketing"} THEN Cardinality({"marketing"}) ELSE Cardinality({"marketing"}) + 1
  BY <1>4, FS_AddElement, Zenon
<1>6. Cardinality({"marketing"} \cup {"qianchuan"}) = 2
  BY <1>4, <1>5
<1>7. {"marketing"} \cup {"qianchuan"} = S
  BY <1>2, <1>3
<1> QED BY <1>1, <1>6, <1>7

LEMMA HonestFromInv == ReportInv => ReportIsHonest
<1> SUFFICES ASSUME ReportInv PROVE ReportIsHonest
  OBVIOUS
<1>1. Cardinality(holders) <= Concurrency
  BY DEF ReportInv, SlotsFollowTasks
<1>2. ASSUME result.state = "done"
      PROVE  LET answered == {a \in selected : result.rows[a] = "ok"}
             IN /\ DOMAIN result.rows = selected
                /\ result.ok <=> answered = selected
                /\ result.summary.spend = Total(answered)
                /\ result.summary.gmv \subseteq Marketing \/ result.summary.gmv \cap Marketing = {}
  <2>1. /\ result.rows = [a \in selected |-> task[a]]
        /\ result.ok <=> \A a \in selected : task[a] = "ok"
        /\ result.summary = BuildAccountReportSummary
    BY <1>2 DEF ReportInv, ResultIsFinal
  <2>2. {a \in selected : result.rows[a] = "ok"} = Successful
    BY <2>1 DEF Successful
  <2>3. result.ok <=> Successful = selected
    BY <2>1 DEF Successful
  <2>4. result.summary.spend = Total(Successful) /\ result.summary.gmv = ComparableGMV
    BY <2>1 DEF BuildAccountReportSummary
  <2>5. DOMAIN result.rows = selected
    BY <2>1
  <2> QED BY <2>2, <2>3, <2>4, <2>5, GMVOfOneChannel
<1> QED BY <1>1, <1>2 DEF ReportIsHonest

(* ReportIsHonest holds however many accounts there are, whichever fail    *)
(* and whenever the command is cancelled.                                  *)
THEOREM HonestReport == ReportInit /\ [][ReportNext]_reportVars => []ReportIsHonest
<1>1. ReportInit => ReportInv
  BY ReportInitially
<1>2. ReportInv /\ [ReportNext]_reportVars => ReportInv'
  BY ReportSteps
<1>3. ReportInv => ReportIsHonest
  BY HonestFromInv
<1> QED BY <1>1, <1>2, <1>3, PTL

-----------------------------------------------------------------------------
(***************************************************************************)
(* WorkVerification: what a batch goes on with, why it leaves works out    *)
(* and what it writes to the owner file is what the platform said,         *)
(* whatever the hints were.                                                *)
(***************************************************************************)

Judging == {"links", "metadata", "hinted", "authorized", "owners", "verified"}
VerificationPcs == Judging \cup {"idle", "storing", "writing", "ended"}
IsBatch(x) ==
    x \in [pc : VerificationPcs, hint : {x.hint}, cached : {x.cached}, works : {x.works},
           found : {x.found}, owned : {x.owned}, skipped : {x.skipped}, copy : {x.copy},
           steady : BOOLEAN, seen : {x.seen}, failed : BOOLEAN]

(* Findable, OwnerHintGroups and VerdictIsTrue of a batch's record.        *)
FoundBy(x, c) ==
    c \in usable /\ \E w \in x.works : x.hint[w].creator = c /\ x.hint[w].name = name[c]
Guesses(x) == {x.hint[w].creator : w \in x.works}
Verdict(x, w) ==
    CASE x.skipped[w] = "creator_unavailable" -> ~FoundBy(x, x.hint[w].creator)
      [] x.skipped[w] = "creator_work_mismatch" -> OwnerOf[w] # x.hint[w].creator
      [] x.skipped[w] = "product_mismatch" -> \A p \in DOMAIN ShowsUnder : w \notin ShowsUnder[p]
      [] OTHER -> x.failed

(* The searches answered so far: by the platform, or the batch knows that  *)
(* one failed.                                                             *)
HintsAnswered(x) ==
    \A c \in DOMAIN x.found :
        /\ x.found[c] \in Names \cup {"failed", "unavailable"}
        /\ x.found[c] \in Names => c \in x.seen
        /\ x.found[c] = "failed" => x.failed
        /\ x.steady /\ x.found[c] = "unavailable" => ~FoundBy(x, c)

Confirmed(x, works) == \A w \in works : OwnerOf[w] \in x.seen /\ OwnerOf[w] = x.hint[w].creator
Excused(x) == x.steady => \A w \in DOMAIN x.skipped : Verdict(x, w)
OfOwners(rows) == DOMAIN rows \subseteq Works /\ \A w \in DOMAIN rows : rows[w].creator = OwnerOf[w]

(* What a batch knows at each of its phases.                               *)
Judged(x) ==
    /\ x.pc \in Judging => usable \subseteq x.seen /\ x.works \subseteq Works
    /\ x.pc \in {"links", "metadata"} => x.found = << >>
    /\ x.pc = "metadata" => DOMAIN x.hint \subseteq Works
    /\ x.pc \in {"hinted", "authorized", "owners"} => DOMAIN x.hint = x.works
    /\ x.pc \in {"hinted", "authorized"} => HintsAnswered(x)
    /\ x.pc = "authorized" => DOMAIN x.found = Guesses(x)
    /\ x.pc = "owners" => /\ x.owned \subseteq x.works /\ DOMAIN x.skipped = x.works \ x.owned
                          /\ Confirmed(x, x.owned) /\ Excused(x)
    /\ x.pc = "verified" => /\ x.works \cap DOMAIN x.skipped = {}
                            /\ x.works \cup DOMAIN x.skipped = DOMAIN x.hint
                            /\ Confirmed(x, x.works) /\ Excused(x)
                            /\ \A w \in x.works : \E p \in DOMAIN ShowsUnder : w \in ShowsUnder[p]
                            /\ x.owned \subseteq Works
    /\ x.pc \in {"storing", "writing"} => OfOwners(x.hint)

(* The lock's holder writes what it read and its own, and nobody else      *)
(* writes.                                                                 *)
OwnerFile ==
    /\ cache = verified /\ OfOwners(cache) /\ Cardinality(DOMAIN cache) <= CacheMax
    /\ clock \in Nat /\ \A w \in DOMAIN cache : cache[w].at \in Nat
    /\ \A b \in Batches : batch[b].pc = "writing" => cacheLock = b /\ batch[b].copy = cache

VerificationInv ==
    /\ OwnerFile
    /\ name \in [Creators -> Names] /\ usable \subseteq Creators
    /\ DOMAIN batch = Batches /\ \A b \in Batches : IsBatch(batch[b]) /\ Judged(batch[b])

LEMMA GoneIsJudged == IsBatch(Gone) /\ Judged(Gone) /\ Gone.pc = "ended"
<1>1. IsBatch(NoBatch)
  BY DEF IsBatch, NoBatch, VerificationPcs
<1>2. IsBatch(Gone) /\ Gone.pc = "ended"
  BY <1>1 DEF IsBatch, Gone, VerificationPcs
<1> QED BY <1>2 DEF Judged, Judging

LEMMA VerificationInitially == VerificationInit => VerificationInv
<1> SUFFICES ASSUME VerificationInit PROVE VerificationInv
  OBVIOUS
<1>1. IsBatch(NoBatch) /\ NoBatch.pc = "idle"
  BY DEF IsBatch, NoBatch, VerificationPcs
<1>2. Judged(NoBatch)
  BY <1>1 DEF Judged, Judging
<1>3. \A b \in Batches : batch[b] = NoBatch
  BY DEF VerificationInit
<1>4. DOMAIN batch = Batches /\ name \in [Creators -> Names] /\ usable \subseteq Creators
  BY VerificationAssumption DEF VerificationInit
<1>5. OwnerFile
  <2>1. DOMAIN cache = {} /\ cache = verified
    BY DEF VerificationInit, NoHints
  <2>2. clock \in Nat
    BY DEF VerificationInit
  <2> QED BY <2>2, <1>1, <1>3, <2>1, FS_EmptySet, VerificationAssumption DEF OwnerFile, OfOwners
<1> QED BY <1>1, <1>2, <1>3, <1>4, <1>5 DEF VerificationInv

(* A batch goes on, and the platform stays as it is.                       *)
LEMMA RecordMoves ==
    ASSUME VerificationInv, NEW b \in Batches, NEW new, Now(b, new), IsBatch(new), Judged(new),
           UNCHANGED platformVars
    PROVE  /\ name' \in [Creators -> Names] /\ usable' \subseteq Creators
           /\ DOMAIN batch' = Batches /\ \A d \in Batches : IsBatch(batch'[d]) /\ Judged(batch[d])'
           /\ \A d \in Batches : batch'[d] = IF d = b THEN new ELSE batch[d]
<1>1. DOMAIN batch' = Batches /\ \A d \in Batches : batch'[d] = IF d = b THEN new ELSE batch[d]
  BY DEF VerificationInv, Now
<1>2. ASSUME NEW x, Judged(x) PROVE Judged(x)'
  BY <1>2 DEF Judged, HintsAnswered, Confirmed, Excused, Verdict, FoundBy, Guesses, OfOwners, platformVars
<1>3. \A d \in Batches : IsBatch(batch'[d])
  BY <1>1 DEF VerificationInv
<1>4. \A d \in Batches : Judged(batch'[d])
  BY <1>1 DEF VerificationInv
<1>5. \A d \in Batches : Judged(batch[d])'
  BY <1>2, <1>4
<1> QED BY <1>1, <1>3, <1>5 DEF VerificationInv, platformVars

(* The file is not touched, but its lock may be freed.                     *)
LEMMA BatchMoves ==
    ASSUME VerificationInv, NEW b \in Batches, NEW new, Now(b, new), IsBatch(new), Judged(new),
           UNCHANGED <<platformVars, cache, clock, verified>>, new.pc # "writing",
           cacheLock' \in {cacheLock, IF cacheLock = b THEN Nobody ELSE cacheLock}
    PROVE  VerificationInv'
<1>1. \A d \in Batches : batch'[d] = IF d = b THEN new ELSE batch[d]
  BY RecordMoves
<1>2. OwnerFile'
  BY <1>1 DEF VerificationInv, OwnerFile, OfOwners
<1> QED BY <1>2, RecordMoves DEF VerificationInv

-----------------------------------------------------------------------------
LEMMA LinksKept ==
    ASSUME VerificationInv, NEW b \in Batches, ResolveLinks(b) PROVE VerificationInv'
<1>1. PICK works \in SUBSET Works :
        Now(b, IF works = {} THEN Gone ELSE [NoBatch EXCEPT !.pc = "links", !.works = works, !.seen = usable])
  BY DEF ResolveLinks
<1> DEFINE new == [NoBatch EXCEPT !.pc = "links", !.works = works, !.seen = usable]
<1>2. IsBatch(NoBatch) /\ NoBatch.found = << >>
  BY DEF IsBatch, NoBatch, VerificationPcs
<1>3. /\ IsBatch(new) /\ new.pc = "links" /\ new.seen = usable /\ new.found = << >>
      /\ new.works = works
  BY <1>2 DEF IsBatch, VerificationPcs, Judging
<1>4. Judged(new)
  BY <1>3 DEF Judged
<1>5. Now(b, new) \/ Now(b, Gone)
  BY <1>1
<1>6. UNCHANGED <<platformVars, fileVars>>
  BY DEF ResolveLinks
<1> HIDE DEF new
<1> QED BY <1>3, <1>4, <1>5, <1>6, GoneIsJudged, BatchMoves DEF fileVars

(* A batch whose hints are complete starts its searches.                   *)
LEMMA HintsKept ==
    ASSUME VerificationInv, NEW b \in Batches, LoadHints(b) \/ ResolveMetadata(b) PROVE VerificationInv'
<1> DEFINE x == batch[b]
<1>1. IsBatch(x) /\ Judged(x) /\ UNCHANGED <<platformVars, fileVars>>
  BY DEF VerificationInv, LoadHints, ResolveMetadata
<1>2. /\ x.pc \in {"links", "metadata"} /\ x.found = << >> /\ usable \subseteq x.seen
      /\ x.works \subseteq Works /\ (x.pc = "metadata" => DOMAIN x.hint \subseteq Works)
  BY <1>1 DEF LoadHints, ResolveMetadata, Judged, Judging
<1>3. ASSUME NEW new, IsBatch(new), new.pc \in {"metadata", "hinted"}, new.found = << >>,
             usable \subseteq new.seen, new.works \subseteq Works, DOMAIN new.hint \subseteq Works,
             new.pc = "hinted" => DOMAIN new.hint = new.works
      PROVE  Judged(new)
  <2>1. HintsAnswered(new)
    BY <1>3 DEF HintsAnswered
  <2> QED BY <1>3, <2>1 DEF Judged
<1>4. CASE LoadHints(b)
  <2>1. PICK hint \in (IF cacheLock = Nobody THEN {Loaded(x.works)} ELSE {}) \cup {NoHints} :
          Now(b, [x EXCEPT !.pc = IF DOMAIN hint = x.works THEN "hinted" ELSE "metadata",
                           !.hint = hint, !.cached = DOMAIN hint])
    BY <1>4 DEF LoadHints
  <2> DEFINE new == [x EXCEPT !.pc = IF DOMAIN hint = x.works THEN "hinted" ELSE "metadata",
                              !.hint = hint, !.cached = DOMAIN hint]
  <2> HIDE DEF x
  <2>2. /\ IsBatch(new) /\ new.pc \in {"metadata", "hinted"} /\ new.found = x.found /\ new.seen = x.seen
        /\ new.works = x.works /\ new.hint = hint /\ (new.pc = "hinted" => DOMAIN hint = x.works)
    BY <1>1 DEF IsBatch, VerificationPcs, Judging
  <2> HIDE DEF new
  <2>3. Judged(new)
    <3>1. DOMAIN hint \subseteq x.works
      BY <2>1 DEF Loaded, NoHints
    <3> QED BY <1>2, <1>3, <2>2, <3>1
  <2>4. Now(b, new)
    BY <2>1 DEF new
  <2> QED BY <1>1, <2>2, <2>3, <2>4, BatchMoves DEF fileVars
<1>5. CASE ResolveMetadata(b)
  <2>1. CASE Now(b, Gone)
    BY <1>1, <2>1, GoneIsJudged, BatchMoves DEF fileVars
  <2>2. CASE ~Now(b, Gone)
    <3> DEFINE missing == x.works \ DOMAIN x.hint
    <3>1. PICK known \in SUBSET missing : \E hint \in [known -> PublicHints] :
            LET works == DOMAIN x.hint \cup known
            IN Now(b, IF works = {} THEN Gone
                      ELSE [x EXCEPT !.pc = "hinted", !.works = works,
                                     !.hint = [w \in works |-> IF w \in known THEN hint[w] ELSE @[w]]])
      BY <1>5, <2>2 DEF ResolveMetadata
    <3> DEFINE works == DOMAIN x.hint \cup known
    <3>2. PICK hint \in [known -> PublicHints] :
            Now(b, IF works = {} THEN Gone
                   ELSE [x EXCEPT !.pc = "hinted", !.works = works,
                                  !.hint = [w \in works |-> IF w \in known THEN hint[w] ELSE @[w]]])
      BY <3>1
    <3> DEFINE new == [x EXCEPT !.pc = "hinted", !.works = works,
                                !.hint = [w \in works |-> IF w \in known THEN hint[w] ELSE @[w]]]
    <3> HIDE DEF x, works
    <3>3. /\ IsBatch(new) /\ new.pc = "hinted" /\ new.found = x.found /\ new.seen = x.seen
          /\ DOMAIN new.hint = works /\ new.works = works
      BY <1>1 DEF IsBatch, VerificationPcs, Judging
    <3>4. Now(b, new)
      BY <2>2, <3>2
    <3> HIDE DEF new
    <3>5. Judged(new)
      <4>1. works \subseteq Works
        BY <1>2, <1>5 DEF works, x, ResolveMetadata
      <4> QED BY <1>2, <1>3, <3>3, <4>1
    <3> QED BY <1>1, <3>3, <3>4, <3>5, BatchMoves DEF fileVars
  <2> QED BY <2>1, <2>2
<1> QED BY <1>4, <1>5

-----------------------------------------------------------------------------
(* Findable and the guesses say of a command what they say of its record.  *)
LEMMA RecordsTell ==
    ASSUME NEW b, NEW c
    PROVE  (Findable(b, c) <=> FoundBy(batch[b], c)) /\ OwnerHintGroups(b) = Guesses(batch[b])
BY DEF Findable, CreatorUsable, SearchKeywords, HintedWorks, FoundBy, OwnerHintGroups, Guesses

LEMMA SearchesKept ==
    ASSUME VerificationInv, NEW b \in Batches, NEW c \in Creators, AuthorizeHint(b, c)
    PROVE  VerificationInv'
<1> DEFINE x == batch[b]
<1>1. IsBatch(x) /\ Judged(x) /\ x.pc = "hinted" /\ UNCHANGED <<platformVars, fileVars>>
      /\ c \in Guesses(x) \ DOMAIN x.found
  BY RecordsTell DEF VerificationInv, AuthorizeHint
<1>2. PICK answer \in ResolveAuthorizedHint(b, c) :
        LET found == [k \in DOMAIN x.found \cup {c} |-> IF k = c THEN answer ELSE x.found[k]]
        IN Now(b, [x EXCEPT !.found = found, !.failed = @ \/ answer = "failed",
                            !.pc = IF DOMAIN found = OwnerHintGroups(b) THEN "authorized" ELSE @])
  BY DEF AuthorizeHint
<1>3. /\ answer \in Names \cup {"failed", "unavailable"}
      /\ answer \in Names => c \in usable
      /\ answer = "unavailable" => ~FoundBy(x, c)
  <2>1. name[c] \in Names
    BY DEF VerificationInv
  <2>2. answer = "failed" \/ (answer = name[c] /\ FoundBy(x, c)) \/ (answer = "unavailable" /\ ~FoundBy(x, c))
    BY RecordsTell DEF ResolveAuthorizedHint
  <2> QED BY <2>1, <2>2, VerificationAssumption DEF FoundBy
<1> DEFINE found == [k \in DOMAIN x.found \cup {c} |-> IF k = c THEN answer ELSE x.found[k]]
           new == [x EXCEPT !.found = found, !.failed = @ \/ answer = "failed",
                            !.pc = IF DOMAIN found = Guesses(x) THEN "authorized" ELSE @]
<1>4. Now(b, new)
  BY <1>2, RecordsTell
<1> HIDE DEF x
<1>5. /\ IsBatch(new) /\ new.found = found /\ new.seen = x.seen /\ new.steady = x.steady
      /\ new.hint = x.hint /\ new.works = x.works /\ new.failed = (x.failed \/ answer = "failed")
      /\ new.pc \in {"hinted", "authorized"} /\ (new.pc = "authorized" => DOMAIN found = Guesses(x))
  BY <1>1 DEF IsBatch, VerificationPcs, Judging
<1>6. \A k : FoundBy(new, k) <=> FoundBy(x, k)
  BY <1>5 DEF FoundBy
<1>7. Guesses(new) = Guesses(x)
  BY <1>5 DEF Guesses
<1>8. /\ HintsAnswered(x) /\ usable \subseteq x.seen /\ DOMAIN x.hint = x.works
      /\ x.works \subseteq Works
  BY <1>1 DEF Judged, Judging
<1>9. HintsAnswered(new)
  <2> SUFFICES ASSUME NEW k \in DOMAIN found
               PROVE  /\ found[k] \in Names \cup {"failed", "unavailable"}
                      /\ found[k] \in Names => k \in x.seen
                      /\ found[k] = "failed" => new.failed
                      /\ new.steady /\ found[k] = "unavailable" => ~FoundBy(new, k)
    BY <1>5 DEF HintsAnswered
  <2>1. CASE k = c
    BY <2>1, <1>3, <1>5, <1>6, <1>8
  <2>2. CASE k # c
    <3>1. k \in DOMAIN x.found /\ found[k] = x.found[k]
      BY <2>2
    <3> QED BY <3>1, <1>5, <1>6, <1>8 DEF HintsAnswered
  <2> QED BY <2>1, <2>2
<1>10. Judged(new)
  <2> HIDE DEF new, found
  <2> QED BY <1>5, <1>7, <1>8, <1>9 DEF Judged
<1> QED
  <2> HIDE DEF new
  <2> QED BY <1>1, <1>4, <1>5, <1>10, BatchMoves DEF fileVars

LEMMA OwnershipKept ==
    ASSUME VerificationInv, NEW b \in Batches, VerifyOwnership(b) PROVE VerificationInv'
<1> DEFINE x == batch[b]
<1>1. IsBatch(x) /\ Judged(x) /\ x.pc = "authorized" /\ UNCHANGED <<platformVars, fileVars>>
  BY DEF VerificationInv, VerifyOwnership
<1>2. PICK lost \in SUBSET {w \in x.works : x.hint[w].creator \in FoundCreators(b)} :
        LET failed == {x.hint[w].creator : w \in lost}
            owned == {w \in x.works \ lost : OwnerOf[w] = x.hint[w].creator /\ OwnerOf[w] \in FoundCreators(b)}
        IN Now(b, [x EXCEPT !.pc = "owners", !.owned = owned, !.failed = @ \/ failed # {},
                            !.skipped = [w \in x.works \ owned |-> SkipReason(b, w, failed)]])
  BY DEF VerifyOwnership
<1> DEFINE failed == {x.hint[w].creator : w \in lost}
           owned == {w \in x.works \ lost : OwnerOf[w] = x.hint[w].creator /\ OwnerOf[w] \in FoundCreators(b)}
           skipped == [w \in x.works \ owned |-> SkipReason(b, w, failed)]
           new == [x EXCEPT !.pc = "owners", !.owned = owned, !.failed = @ \/ failed # {}, !.skipped = skipped]
<1>3. Now(b, new)
  BY <1>2
<1>4. /\ HintsAnswered(x) /\ usable \subseteq x.seen /\ DOMAIN x.hint = x.works
      /\ DOMAIN x.found = Guesses(x) /\ x.works \subseteq Works
  BY <1>1 DEF Judged, Judging
<1>5. \A c : c \in FoundCreators(b) <=> c \in Guesses(x) /\ x.found[c] \in Names
  BY RecordsTell DEF FoundCreators
<1>6. \A w \in owned : OwnerOf[w] = x.hint[w].creator /\ OwnerOf[w] \in x.seen
  BY <1>4, <1>5 DEF HintsAnswered
<1>7. ASSUME NEW w \in x.works \ owned
      PROVE  LET creator == x.hint[w].creator answer == x.found[x.hint[w].creator]
             IN \/ skipped[w] = "creator_query_incomplete" /\ (x.failed \/ failed # {})
                \/ skipped[w] = "creator_unavailable" /\ (x.steady => ~FoundBy(x, creator))
                \/ skipped[w] = "creator_work_mismatch" /\ OwnerOf[w] # creator
  <2> DEFINE creator == x.hint[w].creator
             answer == x.found[creator]
  <2>1. creator \in Guesses(x)
    BY DEF Guesses
  <2>2. skipped[w] = SkipReason(b, w, failed)
    OBVIOUS
  <2>3. CASE answer = "failed" \/ creator \in failed
    <3>1. answer # "unavailable"
      BY <1>5, <2>3, VerificationAssumption
    <3>2. skipped[w] = "creator_query_incomplete"
      BY <2>2, <2>3, <3>1 DEF SkipReason
    <3> QED BY <3>2, <2>1, <2>3, <1>4 DEF HintsAnswered
  <2>4. CASE answer = "unavailable" /\ creator \notin failed
    <3>1. skipped[w] = "creator_unavailable"
      BY <2>2, <2>4 DEF SkipReason
    <3> QED BY <3>1, <2>1, <2>4, <1>4 DEF HintsAnswered
  <2>5. CASE answer \notin {"failed", "unavailable"} /\ creator \notin failed
    <3>1. skipped[w] = "creator_work_mismatch"
      BY <2>2, <2>5 DEF SkipReason
    <3>2. creator \in FoundCreators(b)
      BY <1>4, <1>5, <2>1, <2>5 DEF HintsAnswered
    <3>3. OwnerOf[w] # creator
      BY <3>2, <2>5
    <3> QED BY <3>1, <3>3
  <2> QED BY <2>3, <2>4, <2>5
<1> HIDE DEF x
<1>8. /\ IsBatch(new) /\ new.pc = "owners" /\ new.owned = owned /\ new.skipped = skipped
      /\ new.failed = (x.failed \/ failed # {}) /\ new.seen = x.seen /\ new.steady = x.steady
      /\ new.hint = x.hint /\ new.works = x.works
  BY <1>1 DEF IsBatch, VerificationPcs, Judging
<1>9. owned \subseteq x.works /\ DOMAIN skipped = x.works \ owned
  OBVIOUS
<1> HIDE DEF new, owned, skipped
<1>10. \A c : FoundBy(new, c) <=> FoundBy(x, c)
  BY <1>8 DEF FoundBy
<1>11. Confirmed(new, new.owned)
  BY <1>6, <1>8 DEF Confirmed
<1>12. Excused(new)
  BY <1>7, <1>8, <1>9, <1>10 DEF Excused, Verdict
<1>13. Judged(new)
  BY <1>4, <1>8, <1>9, <1>11, <1>12 DEF Judged
<1> QED BY <1>1, <1>3, <1>8, <1>13, BatchMoves DEF fileVars

LEMMA ProductsKept ==
    ASSUME VerificationInv, NEW b \in Batches, VerifyProducts(b) PROVE VerificationInv'
<1> DEFINE x == batch[b]
<1>1. IsBatch(x) /\ Judged(x) /\ x.pc = "owners" /\ UNCHANGED <<platformVars, fileVars>>
  BY DEF VerificationInv, VerifyProducts
<1>2. PICK failed \in SUBSET (x.owned \X DOMAIN ShowsUnder) :
        LET Lists(w, p) == <<w, p>> \notin failed /\ w \in ShowsUnder[p]
            matched == {w \in x.owned : \E p \in DOMAIN ShowsUnder : Lists(w, p)}
            Reason(w) == IF \E p \in DOMAIN ShowsUnder : <<w, p>> \in failed
                         THEN "product_query_incomplete" ELSE "product_mismatch"
        IN Now(b, [x EXCEPT !.pc = "verified", !.works = matched, !.failed = @ \/ failed # {},
                      !.skipped = [w \in DOMAIN @ \cup (x.owned \ matched) |->
                                      IF w \in x.owned THEN Reason(w) ELSE @[w]]])
  BY DEF VerifyProducts
<1> DEFINE Lists(w, p) == <<w, p>> \notin failed /\ w \in ShowsUnder[p]
           matched == {w \in x.owned : \E p \in DOMAIN ShowsUnder : Lists(w, p)}
           Reason(w) == IF \E p \in DOMAIN ShowsUnder : <<w, p>> \in failed
                        THEN "product_query_incomplete" ELSE "product_mismatch"
           skipped == [w \in DOMAIN x.skipped \cup (x.owned \ matched) |->
                          IF w \in x.owned THEN Reason(w) ELSE x.skipped[w]]
           new == [x EXCEPT !.pc = "verified", !.works = matched, !.failed = @ \/ failed # {}, !.skipped = skipped]
<1>3. Now(b, new)
  BY <1>2
<1>4. /\ usable \subseteq x.seen /\ DOMAIN x.hint = x.works /\ x.owned \subseteq x.works
      /\ DOMAIN x.skipped = x.works \ x.owned /\ Confirmed(x, x.owned) /\ Excused(x)
      /\ x.works \subseteq Works
  BY <1>1 DEF Judged, Judging
<1> HIDE DEF x
<1>5. /\ IsBatch(new) /\ new.pc = "verified" /\ new.works = matched /\ new.skipped = skipped
      /\ new.failed = (x.failed \/ failed # {}) /\ new.seen = x.seen /\ new.steady = x.steady
      /\ new.hint = x.hint /\ new.owned = x.owned
  BY <1>1 DEF IsBatch, VerificationPcs, Judging
<1>6. /\ matched \subseteq x.owned /\ DOMAIN skipped = (x.works \ x.owned) \cup (x.owned \ matched)
      /\ \A w \in matched : \E p \in DOMAIN ShowsUnder : w \in ShowsUnder[p]
  BY <1>4
<1>7. \A w \in x.works \ x.owned : skipped[w] = x.skipped[w]
  BY <1>4
<1>8. ASSUME NEW w \in x.owned \ matched
      PROVE  \/ skipped[w] = "product_query_incomplete" /\ failed # {}
             \/ skipped[w] = "product_mismatch" /\ \A p \in DOMAIN ShowsUnder : w \notin ShowsUnder[p]
  <2>1. skipped[w] = Reason(w)
    OBVIOUS
  <2> QED BY <2>1
<1> HIDE DEF new, matched, skipped, Reason, Lists
<1>9. \A c : FoundBy(new, c) => FoundBy(x, c)
  BY <1>4, <1>5, <1>6 DEF FoundBy
<1>10. Confirmed(new, matched)
  BY <1>4, <1>5, <1>6 DEF Confirmed
<1>11. Excused(new)
  <2> SUFFICES ASSUME new.steady, NEW w \in DOMAIN skipped PROVE Verdict(new, w)
    BY <1>5 DEF Excused
  <2>1. CASE w \in x.works \ x.owned
    <3>1. Verdict(x, w) /\ skipped[w] = x.skipped[w]
      BY <1>4, <1>5, <1>7, <2>1 DEF Excused
    <3> QED BY <1>5, <1>9, <3>1 DEF Verdict
  <2>2. CASE w \in x.owned \ matched
    BY <1>5, <1>8, <2>2 DEF Verdict
  <2> QED BY <1>6, <2>1, <2>2
<1>12. Judged(new)
  BY <1>4, <1>5, <1>6, <1>10, <1>11 DEF Judged
<1> QED BY <1>1, <1>3, <1>5, <1>12, BatchMoves DEF fileVars

-----------------------------------------------------------------------------
(* What is kept of a batch when its works are judged is not judged again.  *)
LEMMA LeavingKept ==
    ASSUME VerificationInv, NEW b \in Batches,
           ReturnVerification(b) \/ StoreFails(b) \/ VerificationCrash(b)
    PROVE  VerificationInv'
<1>1. /\ IsBatch(batch[b]) /\ UNCHANGED <<platformVars, cache, clock, verified>>
      /\ cacheLock' \in {cacheLock, IF cacheLock = b THEN Nobody ELSE cacheLock}
  BY DEF VerificationInv, ReturnVerification, StoreFails, VerificationCrash, platformVars, fileVars
<1>2. CASE Now(b, Gone)
  BY <1>1, <1>2, GoneIsJudged, BatchMoves
<1>3. CASE ReturnVerification(b) /\ ~Now(b, Gone)
  <2> DEFINE new == [NoBatch EXCEPT !.pc = "storing", !.hint = ResolvedOwnerHints(b)]
  <2>1. Now(b, new)
    BY <1>3 DEF ReturnVerification
  <2>2. IsBatch(NoBatch)
    BY DEF IsBatch, NoBatch, VerificationPcs
  <2>3. IsBatch(new) /\ new.pc = "storing" /\ new.hint = ResolvedOwnerHints(b)
    BY <2>2 DEF IsBatch, VerificationPcs
  <2>4. OfOwners(ResolvedOwnerHints(b))
    <3>1. batch[b].owned \subseteq Works
      BY <1>3 DEF VerificationInv, ReturnVerification, Judged
    <3> QED BY <3>1 DEF OfOwners, ResolvedOwnerHints
  <2> HIDE DEF new
  <2>5. Judged(new)
    BY <2>3, <2>4 DEF Judged, Judging
  <2> QED BY <1>1, <2>1, <2>3, <2>5, BatchMoves DEF fileVars
<1> QED BY <1>2, <1>3 DEF StoreFails, VerificationCrash

(* No two rows have the same place in the order they are kept in.          *)
LEMMA PruneBounds ==
    ASSUME NEW rows, DOMAIN rows \subseteq Works, \A w \in DOMAIN rows : rows[w].at \in Nat
    PROVE  /\ DOMAIN Prune(rows) \subseteq DOMAIN rows
           /\ \A w \in DOMAIN Prune(rows) : Prune(rows)[w] = rows[w]
           /\ Cardinality(DOMAIN Prune(rows)) <= CacheMax
<1> DEFINE kept == DOMAIN Prune(rows)
           place == [w \in kept |-> Cardinality(Earlier(rows, w))]
<1>1. kept = {w \in DOMAIN rows : Cardinality(Earlier(rows, w)) < CacheMax}
  BY DEF Prune
<1>2. \A w \in kept : Prune(rows)[w] = rows[w]
  BY DEF Prune
<1>3. IsFiniteSet(DOMAIN rows) /\ \A w : IsFiniteSet(Earlier(rows, w))
  <2>1. IsFiniteSet(DOMAIN rows)
    BY VerificationAssumption, FS_Subset
  <2>2. \A w : Earlier(rows, w) \in SUBSET DOMAIN rows
    BY DEF Earlier
  <2> QED BY <2>1, <2>2, FS_Subset
<1>4. \A w : Cardinality(Earlier(rows, w)) \in Nat
  BY <1>3, FS_CardinalityType
<1>5. ASSUME NEW v \in kept, NEW w \in kept, v # w PROVE place[v] # place[w]
  <2>1. v \in DOMAIN rows /\ w \in DOMAIN rows /\ v \in Nat /\ w \in Nat
        /\ rows[v].at \in Nat /\ rows[w].at \in Nat
    BY <1>1, <1>5, VerificationAssumption
  <2>2. ASSUME NEW p \in DOMAIN rows, NEW q \in DOMAIN rows, KeptBefore(rows, p, q)
        PROVE  Cardinality(Earlier(rows, p)) # Cardinality(Earlier(rows, q))
    <3> \A u \in DOMAIN rows : u \in Nat /\ rows[u].at \in Nat
      BY VerificationAssumption
    <3>1. Earlier(rows, p) \in SUBSET Earlier(rows, q)
      BY <2>2 DEF Earlier, KeptBefore
    <3>2. p \in Earlier(rows, q) /\ p \notin Earlier(rows, p)
      BY <2>2 DEF Earlier, KeptBefore
    <3> QED BY <1>3, <3>1, <3>2, FS_Subset
  <2>3. KeptBefore(rows, v, w) \/ KeptBefore(rows, w, v)
    BY <1>5, <2>1 DEF KeptBefore
  <2> QED BY <2>1, <2>2, <2>3
<1>6. CacheMax \in Nat /\ IsFiniteSet(0..CacheMax - 1) /\ Cardinality(0..CacheMax - 1) = CacheMax
  <2>1. CacheMax \in Nat \ {0} /\ 0 \in Int /\ CacheMax - 1 \in Int /\ ~(0 > CacheMax - 1)
    BY VerificationAssumption
  <2>2. IsFiniteSet(0..CacheMax - 1) /\ Cardinality(0..CacheMax - 1) = CacheMax - 1 - 0 + 1
    BY <2>1, FS_Interval
  <2> QED BY <2>1, <2>2
<1>7. place \in Injection(kept, 0..CacheMax - 1)
  BY <1>1, <1>4, <1>5, <1>6 DEF Injection, IsInjective
<1>8. Cardinality(kept) <= CacheMax
  BY <1>6, <1>7, FS_Injection
<1> QED BY <1>1, <1>2, <1>8

LEMMA StoresKept ==
    ASSUME VerificationInv, NEW b \in Batches, StoreRead(b) \/ StoreWrite(b)
    PROVE  VerificationInv'
<1>1. IsBatch(batch[b]) /\ Judged(batch[b]) /\ OwnerFile
  BY DEF VerificationInv
<1>2. CASE StoreRead(b)
  <2> DEFINE new == [batch[b] EXCEPT !.pc = "writing", !.copy = cache]
  <2>1. /\ Now(b, new) /\ cacheLock = Nobody /\ cacheLock' = b /\ batch[b].pc = "storing"
        /\ UNCHANGED <<platformVars, cache, clock, verified>>
    BY <1>2 DEF StoreRead, CacheFree
  <2>2. IsBatch(new) /\ new.pc = "writing" /\ new.hint = batch[b].hint /\ new.copy = cache
    BY <1>1 DEF IsBatch, VerificationPcs
  <2> HIDE DEF new
  <2>3. Judged(new)
    BY <1>1, <2>1, <2>2 DEF Judged, Judging
  <2>4. \A d \in Batches : batch'[d] = IF d = b THEN new ELSE batch[d]
    BY <2>1, <2>2, <2>3, RecordMoves
  <2>5. \A d \in Batches : batch[d].pc # "writing"
    BY <1>1, <2>1, VerificationAssumption DEF OwnerFile
  <2>6. OwnerFile'
    BY <1>1, <2>1, <2>2, <2>4, <2>5 DEF OwnerFile, OfOwners
  <2> QED BY <2>1, <2>2, <2>3, <2>6, RecordMoves DEF VerificationInv
<1>3. CASE StoreWrite(b)
  <2>1. batch[b].pc = "writing" /\ Now(b, Gone) /\ cacheLock' = Nobody /\ UNCHANGED platformVars
    BY <1>3 DEF StoreWrite
  <2>2. \A d \in Batches : batch'[d] = IF d = b THEN Gone ELSE batch[d]
    BY <2>1, GoneIsJudged, RecordMoves
  <2>3. cacheLock = b /\ \A d \in Batches \ {b} : batch[d].pc # "writing"
    BY <1>1, <2>1 DEF OwnerFile
  <2>4. /\ cache' = verified' /\ OfOwners(cache)' /\ Cardinality(DOMAIN cache)' <= CacheMax
        /\ clock' \in Nat /\ \A w \in DOMAIN cache' : cache'[w].at \in Nat
    <3>1. CASE UNCHANGED <<cache, clock, verified>>
      BY <1>1, <3>1 DEF OwnerFile, OfOwners
    <3>2. CASE /\ cache' = Merged(batch[b].hint, batch[b].copy)
               /\ verified' = Merged(batch[b].hint, verified) /\ clock' \in {clock, clock + 1}
      <4> DEFINE hint == batch[b].hint
                 all == [w \in DOMAIN hint \cup DOMAIN cache |->
                            IF w \in DOMAIN hint THEN EntryOf(hint[w]) ELSE cache[w]]
      <4>1. batch[b].copy = cache /\ cache = verified /\ OfOwners(cache) /\ OfOwners(hint)
        BY <1>1, <2>1 DEF OwnerFile, Judged
      <4>2. cache' = Prune(all) /\ verified' = Prune(all)
        BY <3>2, <4>1 DEF Merged
      <4>3. DOMAIN all \subseteq Works /\ \A w \in DOMAIN all : all[w].creator = OwnerOf[w]
        BY <4>1 DEF OfOwners, EntryOf
      <4>4. \A w \in DOMAIN all : all[w].at \in Nat
        BY <1>1, <4>1 DEF OfOwners, EntryOf, OwnerFile
      <4> HIDE DEF all
      <4>5. /\ DOMAIN cache' \subseteq DOMAIN all /\ Cardinality(DOMAIN cache') <= CacheMax
            /\ \A w \in DOMAIN cache' : cache'[w] = all[w]
        BY <4>2, <4>3, <4>4, PruneBounds
      <4>6. clock' \in Nat
        BY <1>1, <3>2 DEF OwnerFile
      <4> QED BY <4>2, <4>3, <4>4, <4>5, <4>6 DEF OfOwners
    <3> QED BY <1>3, <3>1, <3>2 DEF StoreWrite
  <2>5. OwnerFile'
    BY <2>2, <2>3, <2>4, GoneIsJudged DEF OwnerFile
  <2> QED BY <2>1, <2>5, GoneIsJudged, RecordMoves DEF VerificationInv
<1> QED BY <1>2, <1>3

(* Whoever is usable at some moment of a command has been seen by it, and  *)
(* a command during which the platform changed is not steady.              *)
LEMMA TurnJudged ==
    ASSUME NEW x, NEW new, Judged(x), IsBatch(x), new.pc = x.pc, new.hint = x.hint,
           new.works = x.works, new.found = x.found, new.owned = x.owned, new.skipped = x.skipped,
           new.failed = x.failed, new.seen = x.seen \cup usable',
           new.steady = (x.steady /\ name' = name /\ usable' = usable)
    PROVE  Judged(new)'
<1>1. \A c : new.steady => (FoundBy(new, c)' <=> FoundBy(x, c))
  BY DEF FoundBy
<1>2. Guesses(new) = Guesses(x)
  BY DEF Guesses
<1>3. HintsAnswered(x) => HintsAnswered(new)'
  BY <1>1 DEF HintsAnswered, IsBatch
<1>4. \A S : Confirmed(x, S) => Confirmed(new, S)
  BY DEF Confirmed
<1>5. ASSUME new.steady, NEW w, Verdict(x, w) PROVE Verdict(new, w)'
  BY <1>1, <1>5 DEF Verdict
<1>6. Excused(x) => Excused(new)'
  BY <1>5 DEF Excused, IsBatch
<1> QED BY <1>2, <1>3, <1>4, <1>6 DEF Judged

LEMMA TurnKept == ASSUME VerificationInv, OfficialTurn PROVE VerificationInv'
<1>1. name' \in [Creators -> Names] /\ usable' \subseteq Creators
  BY DEF VerificationInv, OfficialTurn
<1>2. /\ DOMAIN batch' = Batches
      /\ \A b \in Batches : batch'[b] = IF batch[b].pc \in {"idle", "ended", "storing", "writing"}
                                        THEN batch[b]
                                        ELSE [batch[b] EXCEPT !.seen = @ \cup usable',
                                                 !.steady = @ /\ name' = name /\ usable' = usable]
  BY DEF OfficialTurn
<1>3. ASSUME NEW b \in Batches PROVE IsBatch(batch'[b]) /\ Judged(batch[b])'
  <2>1. IsBatch(batch[b]) /\ Judged(batch[b])
    BY DEF VerificationInv
  <2>2. CASE batch[b].pc \in {"idle", "ended", "storing", "writing"}
    <3>1. batch'[b] = batch[b]
      BY <1>2, <2>2
    <3> QED BY <2>1, <2>2, <3>1 DEF Judged, Judging
  <2>3. CASE batch[b].pc \notin {"idle", "ended", "storing", "writing"}
    <3>1. batch'[b] = [batch[b] EXCEPT !.seen = @ \cup usable',
                          !.steady = @ /\ name' = name /\ usable' = usable]
      BY <1>2, <2>3
    <3> DEFINE x == batch[b]
    <3>2. IsBatch(x)
      BY <2>1
    <3> HIDE DEF x
    <3>3. batch'[b] = [x EXCEPT !.seen = x.seen \cup usable',
                          !.steady = (x.steady /\ name' = name /\ usable' = usable)]
      BY <3>1 DEF x
    <3>4. /\ IsBatch(batch'[b]) /\ batch'[b].pc = x.pc /\ batch'[b].hint = x.hint
          /\ batch'[b].works = x.works /\ batch'[b].found = x.found /\ batch'[b].owned = x.owned
          /\ batch'[b].skipped = x.skipped /\ batch'[b].failed = x.failed
          /\ batch'[b].seen = x.seen \cup usable'
          /\ batch'[b].steady = (x.steady /\ name' = name /\ usable' = usable)
      BY <3>2, <3>3 DEF IsBatch
    <3>5. Judged(x)
      BY <2>1 DEF x
    <3>6. \A y, new :
            /\ Judged(y) /\ IsBatch(y) /\ new.pc = y.pc /\ new.hint = y.hint
            /\ new.works = y.works /\ new.found = y.found /\ new.owned = y.owned
            /\ new.skipped = y.skipped /\ new.failed = y.failed /\ new.seen = y.seen \cup usable'
            /\ new.steady = (y.steady /\ name' = name /\ usable' = usable)
            => Judged(new)'
      BY TurnJudged
    <3> QED BY <3>2, <3>4, <3>5, <3>6
  <2> QED BY <2>2, <2>3
<1>4. \A b \in Batches : batch'[b].pc = "writing" => batch[b].pc = "writing" /\ batch'[b] = batch[b]
  <2> TAKE b \in Batches
  <2>1. IsBatch(batch[b])
    BY DEF VerificationInv
  <2>2. batch'[b] = batch[b] \/ (batch'[b].pc = batch[b].pc /\ batch[b].pc # "writing")
    BY <1>2, <2>1 DEF IsBatch
  <2> QED BY <2>2
<1>5. OwnerFile'
  BY <1>4 DEF OfficialTurn, fileVars, VerificationInv, OwnerFile, OfOwners
<1> QED BY <1>1, <1>2, <1>3, <1>5 DEF VerificationInv

LEMMA VerificationKept ==
    VerificationInv /\ [VerificationNext]_verificationVars => VerificationInv'
<1> SUFFICES ASSUME VerificationInv, [VerificationNext]_verificationVars PROVE VerificationInv'
  OBVIOUS
<1>1. ASSUME NEW b \in Batches, VerificationStep(b) PROVE VerificationInv'
  BY <1>1, LinksKept, HintsKept, SearchesKept, OwnershipKept, ProductsKept,
     LeavingKept, StoresKept
     DEF VerificationStep
<1>2. CASE OfficialTurn
  BY <1>2, TurnKept
<1>3. CASE UNCHANGED verificationVars
  <2>1. UNCHANGED <<name, usable, cache, cacheLock, clock, verified, batch>>
    BY <1>3 DEF verificationVars, platformVars, fileVars
  <2>2. ASSUME NEW x, Judged(x) PROVE Judged(x)'
    BY <2>1, <2>2 DEF Judged, HintsAnswered, Confirmed, Excused, Verdict, FoundBy, Guesses, OfOwners
  <2>3. \A b \in Batches : Judged(batch[b])'
    BY <2>1, <2>2 DEF VerificationInv
  <2>4. OwnerFile'
    BY <2>1 DEF VerificationInv, OwnerFile, OfOwners
  <2> QED BY <2>1, <2>3, <2>4 DEF VerificationInv
<1> QED BY <1>1, <1>2, <1>3 DEF VerificationNext

LEMMA JudgedOfficially == VerificationInv => WorksAreJudgedOfficially
<1> SUFFICES ASSUME VerificationInv, NEW b \in Batches, batch[b].pc = "verified"
             PROVE  /\ \A w \in batch[b].works :
                          /\ OwnerOf[w] \in batch[b].seen /\ OwnerOf[w] = batch[b].hint[w].creator
                          /\ \E p \in DOMAIN ShowsUnder : w \in ShowsUnder[p]
                    /\ batch[b].works \cap DOMAIN batch[b].skipped = {}
                    /\ batch[b].works \cup DOMAIN batch[b].skipped = DOMAIN batch[b].hint
                    /\ batch[b].steady => \A w \in DOMAIN batch[b].skipped : VerdictIsTrue(b, w)
  BY DEF WorksAreJudgedOfficially, MatchedIsOfficial, VerdictsAreTrue
<1>1. Judged(batch[b])
  BY DEF VerificationInv
<1>2. ASSUME NEW w, Verdict(batch[b], w) PROVE VerdictIsTrue(b, w)
  BY <1>2, RecordsTell DEF Verdict, VerdictIsTrue
<1> QED BY <1>1, <1>2 DEF Judged, Confirmed, Excused

(* Files and F2 only hint: a work is used when the platform confirmed it   *)
(* in this run, and left out for a reason that is true.                    *)
THEOREM JudgedByThePlatform ==
    VerificationInit /\ [][VerificationNext]_verificationVars => []WorksAreJudgedOfficially
BY VerificationInitially, VerificationKept, JudgedOfficially, PTL
(* CacheIsVerified holds whichever commands store at once, fail and die.   *)
THEOREM FileIsVerified ==
    VerificationInit /\ [][VerificationNext]_verificationVars => []CacheIsVerified
<1>1. VerificationInv => CacheIsVerified
  BY DEF VerificationInv, OwnerFile, OfOwners, CacheIsVerified
<1> QED BY <1>1, VerificationInitially, VerificationKept, PTL

-----------------------------------------------------------------------------
(***************************************************************************)
(* Queries and QueryTools: while no row comes or goes, a query that        *)
(* answers has every row of its lists, its report says what they say, and  *)
(* a tool tells what it leaves out, for any lists, page sizes and limits,  *)
(* and however the rows change their places between two pages.             *)
(***************************************************************************)

(* The walks that compare keys and totals, and the lists they read.        *)
OneRead == {"plan schema", "project schema", "plan"}
Paged == {"products", "plans", "plan materials", "materials", "plan metrics", "plan metadata", "plan report",
          "promotions", "material report", "authorizations", "homepage"}
Library == {"library", "images", "dpa products"}
Compared == Paged \cup Library \cup {"creators"}
FromTheFirst == {"products", "plans", "plan materials", "plan metrics", "plan metadata", "plan report",
                 "plan schema", "project schema", "creators", "videos"}

(* How a query walks each of its lists.                                    *)
Routed(q) ==
    /\ q.ask.walk = "pages" <=> q.reads \in Paged \cup OneRead
    /\ q.ask.walk = "library" <=> q.reads \in Library
    /\ q.ask.walk = "creators" <=> q.reads \in {"creators", "videos"}
    /\ q.ask.single => q.ask.walk \in {"one", "pages", "library"}
    /\ q.reads = "videos" => q.ask.name = "creator videos"
    /\ q.reads = "plan" => q.ask.start = 1 /\ (q.ask.single <=> q.ask.name # "plan with materials")
    /\ q.reads \in FromTheFirst => q.ask.start = 1 /\ ~q.ask.single
    /\ q.reads \in {"project schema", "plan report"} => q.ask.status = "ALL"

(* What each tool reads.                                                    *)
AskedBy(q, by) == by # None =>
    /\ by = "products" => q.reads = "products"
    /\ by = "plans" => q.reads = "plans"
    /\ by = "videos" => q.reads = "library" /\ q.ask.single
    /\ by = "creator materials" => q.reads \in {"authorizations", "homepage"} /\ q.ask.single /\ q.ask.ids = Ids
    /\ by = "plan report" => q.reads \in {"plan schema", "plan metrics", "plan metadata"}
    /\ by = "project report" => q.reads \in {"project schema", "plan report"}
    /\ by = "material report" => q.reads \in {"promotions", "material report"} /\ q.ask.start = 1 /\ ~q.ask.single
    /\ by \in {None, "plan", "account", "products", "plans", "videos", "creator materials",
               "plan report", "project report", "material report"}

(* A request, and what a list without repeated rows is.                    *)
QueryNames ==
    {"projects", "project promotions", "dpa", "events", "deep bids", "goals", "regions", "products", "plans",
     "plan materials", "plan", "plan with materials", "creators", "creator videos", "materials", "qianchuan plans",
     "data", "room", "author", "unified schema", "overall", "unified", "schema", "project plans", "unit materials",
     "ad videos", "ad images", "covers", "library", "images", "dpa products", "authorizations", "homepage"}
Question ==
    [name : QueryNames, walk : {"one", "covers", "pages", "library", "unified", "cities", "creators"},
     ids : SUBSET Ids, status : Statuses \cup {"ALL"}, start : 1..2, single : BOOLEAN, cap : Nat \ {0}]
Unique(rows) == rows \in Seq(Ids) /\ IsInjective(rows)
QueryFields == DOMAIN Unasked

(* What has been read so far.                                              *)
ReadSoFar(q) ==
    /\ q.page \in Nat \ {0}
    /\ q.ask.single => q.page = q.ask.start /\ q.got = << >>
    /\ q.reads \in Compared => Unique(q.got) /\ ToSet(q.got) \subseteq ToSet(Rows(q))
    /\ q.reads = "videos" => Unique(q.got) /\ q.cursor \in Nat \cup {None}
    /\ q.reads \in OneRead => q.got = << >>

(* What is known of the walks before.                                      *)
KeptSoFar(q) ==
    /\ q.reads = "plan metadata" => Unique(q.kept) /\ ToSet(q.kept) = ToSet(server.main)
    /\ q.reads = "material report" => Unique(q.kept)
    /\ q.reads = "material report" /\ q.ask.start = 1 /\ ~q.ask.single
          => ToSet(q.kept) = ToSet(server.side) \cap q.ask.ids \cap WithStatus(q.ask.status)
    /\ IF q.reads = "videos"
       THEN Unique(q.kept) /\ {i \in ToSet(server.side) : fact[i].wanted} = {q.creator}
       ELSE q.creator = None

(* A query that is reading a list.                                         *)
Walking(q, by) ==
    /\ DOMAIN q = QueryFields /\ ~q.truncated /\ q.ask \in Question
    /\ Routed(q) /\ AskedBy(q, by) /\ ReadSoFar(q) /\ KeptSoFar(q)

-----------------------------------------------------------------------------
(* Lists                                                                   *)

(* The elements of a finite set come one after another: of any two, all    *)
(* that is up to the one is up to the other; nth finds them by their ranks *)
(* and so counts each of them once.                                        *)
Nested(S, upTo) ==
    /\ IsFiniteSet(S) /\ upTo \in [S -> SUBSET S] /\ \A i \in S : i \in upTo[i]
    /\ \A i, k \in S : i # k => \/ upTo[i] \subseteq upTo[k] /\ k \notin upTo[i]
                                \/ upTo[k] \subseteq upTo[i] /\ i \notin upTo[k]
ByRank(S, upTo, nth) ==
    \A n \in 1..Cardinality(S), i \in S :
        Cardinality(upTo[i]) = n => nth[n] \in S /\ Cardinality(upTo[nth[n]]) = n
Counts(nth, S) ==
    /\ Cardinality(S) \in Nat
    /\ \A n \in 1..Cardinality(S) : nth[n] \in S
    /\ \A m, n \in 1..Cardinality(S) : nth[m] = nth[n] => m = n
    /\ \A i \in S : \E n \in 1..Cardinality(S) : nth[n] = i

(* The first n numbers are n.                                              *)
LEMMA UpToN == \A n \in Nat : IsFiniteSet(1..n) /\ Cardinality(1..n) = n
  BY FS_Interval

(* Things ordered by nested sets are counted by the sizes of these sets.   *)
LEMMA Ranks ==
    ASSUME NEW S, NEW upTo, NEW nth, Nested(S, upTo), ByRank(S, upTo, nth)
    PROVE  /\ Counts(nth, S)
           /\ \A n \in 1..Cardinality(S) : Cardinality(upTo[nth[n]]) = n
  <1> USE DEF Nested
  <1> DEFINE c == Cardinality(S)
             rank == [i \in S |-> Cardinality(upTo[i])]
  <1>1. c \in Nat
    BY FS_CardinalityType
  <1>2. ASSUME NEW i \in S
        PROVE  IsFiniteSet(upTo[i]) /\ Cardinality(upTo[i]) \in 1..c
    <2>1. IsFiniteSet(upTo[i]) /\ Cardinality(upTo[i]) <= c
      BY FS_Subset
    <2>2. Cardinality(upTo[i]) \in Nat
      BY <2>1, FS_CardinalityType
    <2>3. Cardinality(upTo[i]) # 0
      BY <2>1, FS_EmptySet
    <2> QED BY <1>1, <2>1, <2>2, <2>3
  <1>3. ASSUME NEW i \in S, NEW k \in S, upTo[i] \subseteq upTo[k], k \notin upTo[i]
        PROVE  Cardinality(upTo[i]) # Cardinality(upTo[k])
    <2>1. upTo[i] \in SUBSET upTo[k] /\ upTo[i] # upTo[k]
      BY <1>3
    <2> QED BY <1>2, <2>1, FS_Subset
  <1>4. \A i, k \in S : rank[i] = rank[k] => i = k
    BY <1>3
  <1>5. rank \in Injection(S, 1..c)
    <2>1. rank \in [S -> 1..c]
      BY <1>2
    <2> QED BY <1>4, <2>1 DEF Injection, IsInjective
  <1>6. IsFiniteSet(1..c) /\ Cardinality(1..c) = c
    BY <1>1, UpToN
  <1>7. rank \in Surjection(S, 1..c)
    <2> HIDE DEF rank
    <2> QED BY <1>5, <1>6, FS_Injection
  <1>8. \A n \in 1..c : \E i \in S : rank[i] = n
    <2> HIDE DEF rank
    <2> QED BY <1>7 DEF Surjection
  <1>9. ASSUME NEW n \in 1..c
        PROVE  nth[n] \in S /\ rank[nth[n]] = n
    <2>1. \E i \in S : Cardinality(upTo[i]) = n
      BY <1>8
    <2> QED BY <2>1 DEF ByRank
  <1>11. \A m, n \in 1..c : nth[m] = nth[n] => m = n
    <2> HIDE DEF rank
    <2> QED BY <1>9
  <1>12. ASSUME NEW i \in S
         PROVE  \E n \in 1..c : nth[n] = i
    <2>1. rank[i] \in 1..c /\ nth[rank[i]] \in S /\ rank[nth[rank[i]]] = rank[i]
      <3> rank[i] \in 1..c
        BY <1>2
      <3> HIDE DEF rank
      <3> QED BY <1>9
    <2>2. nth[rank[i]] = i
      <3> HIDE DEF rank
      <3> QED BY <1>4, <2>1
    <2> QED BY <2>1, <2>2
  <1> QED BY <1>1, <1>9, <1>11, <1>12 DEF Counts

(* The numbers of a set, each once.                                        *)
LEMMA AscendingIs ==
    ASSUME NEW S \in SUBSET Nat, IsFiniteSet(S)
    PROVE  /\ Cardinality(S) \in Nat
           /\ Ascending(S) \in [1..Cardinality(S) -> S]
           /\ Counts(Ascending(S), S)
  <1> DEFINE upTo == [i \in S |-> {j \in S : j <= i}]
  <1>1. upTo \in [S -> SUBSET S] /\ \A i \in S : i \in upTo[i]
    OBVIOUS
  <1>2. ASSUME NEW i \in S, NEW k \in S, i # k
        PROVE  \/ upTo[i] \subseteq upTo[k] /\ k \notin upTo[i]
               \/ upTo[k] \subseteq upTo[i] /\ i \notin upTo[k]
    <2>1. i < k \/ k < i
      BY <1>2
    <2>2. ASSUME NEW a \in S, NEW b \in S, a < b
          PROVE  upTo[a] \subseteq upTo[b] /\ b \notin upTo[a]
      <3>1. S \subseteq Int
        OBVIOUS
      <3>2. (\A j \in S : j <= a => j <= b) /\ ~(b <= a)
        BY <2>2, <3>1
      <3> QED BY <3>2
    <2> QED BY <2>1, <2>2
  <1>4. ASSUME NEW n \in 1..Cardinality(S), NEW i \in S, Cardinality(upTo[i]) = n
        PROVE  Ascending(S)[n] \in S /\ Cardinality(upTo[Ascending(S)[n]]) = n
    <2>1. Cardinality({j \in S : j <= i}) = n
      BY <1>4
    <2>2. Ascending(S)[n] = CHOOSE k \in S : Cardinality({j \in S : j <= k}) = n
      BY DEF Ascending
    <2>3. Ascending(S)[n] \in S /\ Cardinality({j \in S : j <= Ascending(S)[n]}) = n
      BY <2>1, <2>2
    <2> QED BY <2>3
  <1> DEFINE nth == Ascending(S)
             c == Cardinality(S)
  <1>5. Counts(nth, S)
    <2>1. Nested(S, upTo)
      <3> HIDE DEF upTo
      <3> QED BY <1>1, <1>2 DEF Nested
    <2>2. ByRank(S, upTo, nth)
      <3> HIDE DEF upTo
      <3> QED BY <1>4 DEF ByRank
    <2> HIDE DEF upTo, nth
    <2> QED BY <2>1, <2>2, Ranks
  <1> DEFINE pick(n) == CHOOSE i \in S : Cardinality({j \in S : j <= i}) = n
  <1>6. nth = [n \in 1..c |-> pick(n)]
    BY DEF Ascending
  <1>7. nth \in [1..c -> S]
    <2> HIDE DEF pick, nth
    <2> QED BY <1>5, <1>6 DEF Counts
  <1> QED BY <1>5, <1>7 DEF Counts

(* The rows kept are those at the places, once for each place.             *)
LEMMA KeptIs ==
    ASSUME NEW T, NEW rows \in Seq(T), NEW places \in SUBSET (DOMAIN rows)
    PROVE  /\ Kept(rows, places) \in Seq(T)
           /\ ToSet(Kept(rows, places)) = {rows[i] : i \in places}
           /\ IsInjective(rows) => IsInjective(Kept(rows, places))
  <1> DEFINE nth == Ascending(places)
             c == Cardinality(places)
             kept == Kept(rows, places)
  <1>1. places \in SUBSET Nat /\ IsFiniteSet(places)
    <2>1. IsFiniteSet(1..Len(rows)) /\ DOMAIN rows = 1..Len(rows)
      BY UpToN
    <2> QED BY <2>1, FS_Subset
  <1>2. /\ c \in Nat /\ nth \in [1..c -> places]
        /\ \A m, n \in 1..c : nth[m] = nth[n] => m = n
        /\ \A i \in places : \E n \in 1..c : nth[n] = i
    BY <1>1, AscendingIs DEF Counts
  <1>3. kept = [n \in 1..c |-> rows[nth[n]]]
    BY DEF Kept
  <1> HIDE DEF nth, c, kept
  <1>4. \A n \in 1..c : nth[n] \in places /\ nth[n] \in DOMAIN rows /\ rows[nth[n]] \in T
    BY <1>2
  <1>5. kept \in Seq(T) /\ DOMAIN kept = 1..c
    BY <1>2, <1>3, <1>4
  <1>6. ToSet(kept) = {rows[i] : i \in places}
    BY <1>2, <1>3, <1>4, <1>5 DEF ToSet
  <1>7. IsInjective(rows) => IsInjective(kept)
    BY <1>2, <1>3, <1>4, <1>5 DEF IsInjective
  <1> QED BY <1>5, <1>6, <1>7 DEF kept

(* The rows of a list that are about these ids.                            *)
LEMMA OnlyIs ==
    ASSUME NEW rows \in Seq(Ids), NEW ids
    PROVE  /\ Only(rows, ids) \in Seq(Ids)
           /\ ToSet(Only(rows, ids)) = ToSet(rows) \cap ids
           /\ IsInjective(rows) => IsInjective(Only(rows, ids))
  <1> DEFINE places == {k \in DOMAIN rows : rows[k] \in ids}
  <1>1. places \in SUBSET (DOMAIN rows) /\ Only(rows, ids) = Kept(rows, places)
    BY DEF Only
  <1>2. {rows[i] : i \in places} = ToSet(rows) \cap ids
    BY DEF ToSet
  <1> HIDE DEF places
  <1> QED BY <1>1, <1>2, KeptIs

(* A list without repetition is as long as the set of its rows is large.   *)
LEMMA UniqueLen ==
    ASSUME NEW rows, Unique(rows)
    PROVE  /\ IsFiniteSet(ToSet(rows)) /\ Cardinality(ToSet(rows)) = Len(rows)
           /\ Len(rows) \in Nat
  <1>1. rows \in Seq(Ids) /\ Len(rows) \in Nat /\ DOMAIN rows = 1..Len(rows)
    BY DEF Unique
  <1>2. rows \in Bijection(1..Len(rows), ToSet(rows))
    <2>1. rows \in [1..Len(rows) -> ToSet(rows)]
      BY <1>1 DEF ToSet
    <2>2. \A i \in ToSet(rows) : \E n \in 1..Len(rows) : rows[n] = i
      BY <1>1 DEF ToSet
    <2> QED BY <1>1, <2>1, <2>2 DEF Bijection, Injection, Surjection, IsInjective, Unique
  <1>3. IsFiniteSet(1..Len(rows)) /\ Cardinality(1..Len(rows)) = Len(rows)
    BY <1>1, UpToN
  <1>4. ExistsBijection(1..Len(rows), ToSet(rows))
    BY <1>2 DEF ExistsBijection
  <1> QED BY <1>1, <1>3, <1>4, FS_Bijection

(* Of rows that all come from a list and do not repeat, as many as the     *)
(* list has are all of it, and fewer are not.                              *)
LEMMA AllOrFewer ==
    ASSUME NEW some, NEW rows, Unique(some), Unique(rows), ToSet(some) \subseteq ToSet(rows)
    PROVE  /\ Len(some) <= Len(rows)
           /\ Len(some) = Len(rows) <=> ToSet(some) = ToSet(rows)
  <1>1. /\ IsFiniteSet(ToSet(some)) /\ Cardinality(ToSet(some)) = Len(some)
        /\ IsFiniteSet(ToSet(rows)) /\ Cardinality(ToSet(rows)) = Len(rows)
    BY UniqueLen
  <1> QED BY <1>1, FS_Subset

(* A list with the rows of another behind it.                              *)
LEMMA Joins ==
    ASSUME NEW first \in Seq(Ids), NEW second \in Seq(Ids)
    PROVE  /\ first \o second \in Seq(Ids)
           /\ ToSet(first \o second) = ToSet(first) \cup ToSet(second)
           /\ /\ IsInjective(first) /\ IsInjective(second) /\ ToSet(first) \cap ToSet(second) = {}
              => IsInjective(first \o second)
  <1> DEFINE m == Len(first)
             n == Len(second)
             both == first \o second
  <1>1. m \in Nat /\ n \in Nat /\ DOMAIN first = 1..m /\ DOMAIN second = 1..n
    OBVIOUS
  <1>2. /\ both \in Seq(Ids) /\ DOMAIN both = 1..(m + n)
        /\ \A k \in 1..(m + n) : both[k] = IF k <= m THEN first[k] ELSE second[k - m]
    OBVIOUS
  <1>3. /\ \A k \in 1..m : k \in 1..(m + n) /\ both[k] = first[k]
        /\ \A k \in 1..n : k + m \in 1..(m + n) /\ both[k + m] = second[k]
        /\ \A k \in 1..(m + n) : k \in 1..m \/ (k - m \in 1..n /\ k = (k - m) + m)
    BY <1>1, <1>2
  <1> HIDE DEF m, n, both
  <1>4. ToSet(both) \subseteq ToSet(first) \cup ToSet(second)
    <2> SUFFICES ASSUME NEW k \in 1..(m + n) PROVE both[k] \in ToSet(first) \cup ToSet(second)
      BY <1>2 DEF ToSet
    <2>1. CASE k \in 1..m
      BY <1>1, <1>3, <2>1 DEF ToSet
    <2>2. CASE k - m \in 1..n /\ k = (k - m) + m
      <3>1. both[k] = second[k - m]
        BY <1>3, <2>2
      <3> QED BY <1>1, <2>2, <3>1 DEF ToSet
    <2> QED BY <1>3, <2>1, <2>2
  <1>5. ToSet(first) \cup ToSet(second) \subseteq ToSet(both)
    <2>1. \A k \in 1..m : first[k] \in {both[j] : j \in 1..(m + n)}
      BY <1>3
    <2>2. \A k \in 1..n : second[k] \in {both[j] : j \in 1..(m + n)}
      BY <1>3
    <2> QED BY <1>1, <1>2, <2>1, <2>2 DEF ToSet
  <1>6. ASSUME IsInjective(first), IsInjective(second), ToSet(first) \cap ToSet(second) = {}
        PROVE  IsInjective(both)
    <2> SUFFICES ASSUME NEW a \in 1..(m + n), NEW b \in 1..(m + n), both[a] = both[b]
                 PROVE  a = b
      BY <1>2 DEF IsInjective
    <2>1. \A k \in 1..m, l \in 1..n : first[k] # second[l]
      BY <1>1, <1>6 DEF ToSet
    <2>2. CASE a \in 1..m /\ b \in 1..m
      BY <1>1, <1>3, <1>6, <2>2 DEF IsInjective
    <2>3. CASE a \notin 1..m /\ b \notin 1..m
      <3>1. /\ a - m \in 1..n /\ b - m \in 1..n /\ a = (a - m) + m /\ b = (b - m) + m
        BY <1>3, <2>3
      <3>2. second[a - m] = second[b - m]
        BY <1>3, <3>1
      <3> QED BY <1>1, <1>6, <3>1, <3>2 DEF IsInjective
    <2>4. CASE a \in 1..m /\ b \notin 1..m
      BY <1>3, <2>1, <2>4
    <2>5. CASE a \notin 1..m /\ b \in 1..m
      BY <1>3, <2>1, <2>5
    <2> QED BY <2>2, <2>3, <2>4, <2>5
  <1> QED BY <1>2, <1>4, <1>5, <1>6 DEF both

(* The rows of a page, and the rows that are new.                          *)
LEMMA SliceIs ==
    ASSUME NEW rows, Unique(rows), NEW from \in Nat
    PROVE  /\ Unique(Slice(rows, from)) /\ ToSet(Slice(rows, from)) \subseteq ToSet(rows)
           /\ from = 0 /\ Len(rows) <= PageSize => Slice(rows, from) = rows
           /\ from = 0 /\ Len(rows) > PageSize => Len(Slice(rows, from)) = PageSize
  <1> DEFINE last == Lesser(from + PageSize, Len(rows))
  <1>1. PageSize \in Nat \ {0} /\ rows \in Seq(Ids) /\ Len(rows) \in Nat /\ DOMAIN rows = 1..Len(rows)
    BY QueriesAssumption DEF Unique
  <1>2. last \in Nat /\ last <= Len(rows)
    BY <1>1 DEF Lesser
  <1>3. Slice(rows, from) = SubSeq(rows, from + 1, last)
    BY DEF Slice
  <1>4. from = 0 => last = IF Len(rows) <= PageSize THEN Len(rows) ELSE PageSize
    BY <1>1 DEF Lesser
  <1> HIDE DEF last
  <1>5. CASE from + 1 <= last
    <2> DEFINE slice == Slice(rows, from)
    <2>1. /\ slice \in Seq(Ids) /\ Len(slice) = last - from /\ DOMAIN slice = 1..(last - from)
          /\ \A k \in 1..(last - from) : from + k \in DOMAIN rows /\ slice[k] = rows[from + k]
      <3>1. \A k \in 1..(last - from) : from + k \in 1..Len(rows)
        BY <1>1, <1>2, <1>5
      <3>2. slice = [k \in 1..(last - from) |-> rows[from + k]]
        <4>1. slice \in Seq(Ids) /\ Len(slice) = last - from
          BY <1>1, <1>2, <1>3, <1>5
        <4>2. \A k \in 1..(last - from) : slice[k] = rows[from + k]
          BY <1>1, <1>2, <1>3, <1>5
        <4>3. DOMAIN slice = 1..(last - from)
          BY <4>1
        <4> HIDE DEF slice
        <4> QED BY <4>1, <4>2, <4>3
      <3> HIDE DEF slice
      <3>3. \A k \in 1..(last - from) : rows[from + k] \in Ids
        BY <1>1, <3>1
      <3>4. last - from \in Nat
        BY <1>2, <1>5
      <3> QED BY <1>1, <3>1, <3>2, <3>3, <3>4
    <2> HIDE DEF slice
    <2>2. IsInjective(slice)
      <3> SUFFICES ASSUME NEW a \in 1..(last - from), NEW b \in 1..(last - from), slice[a] = slice[b]
                   PROVE  a = b
        BY <2>1 DEF IsInjective
      <3>1. rows[from + a] = rows[from + b] /\ from + a \in DOMAIN rows /\ from + b \in DOMAIN rows
        BY <2>1
      <3>2. from + a = from + b
        BY <3>1 DEF Unique, IsInjective
      <3> QED BY <1>2, <3>2
    <2>3. ToSet(slice) \subseteq ToSet(rows)
      BY <2>1 DEF ToSet
    <2>4. ASSUME from = 0, Len(rows) <= PageSize
          PROVE  slice = rows
      <3>1. last = Len(rows)
        BY <1>4, <2>4
      <3> QED BY <1>1, <1>2, <2>1, <2>4, <3>1
    <2>5. from = 0 /\ Len(rows) > PageSize => Len(slice) = PageSize
      BY <1>1, <1>4, <2>1
    <2> QED BY <2>1, <2>2, <2>3, <2>4, <2>5 DEF slice, Unique
  <1>6. CASE ~(from + 1 <= last)
    <2>1. Slice(rows, from) = << >>
      BY <1>1, <1>2, <1>3, <1>6
    <2>2. Unique(<< >>) /\ ToSet(<< >>) = {} /\ Len(<< >>) = 0
      BY DEF Unique, IsInjective, ToSet
    <2>3. from = 0 => last = 0 /\ Len(rows) = 0
      <3> SUFFICES ASSUME from = 0 PROVE last = 0 /\ Len(rows) = 0
        OBVIOUS
      <3>1. last = 0
        BY <1>2, <1>6
      <3>2. Len(rows) <= PageSize
        BY <1>1, <1>4, <3>1
      <3> QED BY <1>4, <3>1, <3>2
    <2>4. Len(rows) = 0 => rows = << >>
      BY <1>1
    <2> QED BY <1>1, <2>1, <2>2, <2>3, <2>4
  <1> QED BY <1>5, <1>6

(* Rows that are not there yet, added to a list.                           *)
LEMMA UnseenIs ==
    ASSUME NEW got, NEW rows, Unique(got), Unique(rows)
    PROVE  Unique(Unseen(got, rows))
  <1> DEFINE new == Only(rows, Ids \ ToSet(got))
  <1>1. new \in Seq(Ids) /\ ToSet(new) = ToSet(rows) \cap (Ids \ ToSet(got)) /\ IsInjective(new)
    BY OnlyIs DEF Unique
  <1>2. ToSet(got) \cap ToSet(new) = {}
    BY <1>1
  <1>3. got \o new \in Seq(Ids) /\ IsInjective(got \o new)
    <2> HIDE DEF new
    <2> QED BY <1>1, <1>2, Joins DEF Unique
  <1> QED BY <1>3 DEF Unseen, Unique

(* What --top leaves.                                                      *)
LEMMA CutIs ==
    ASSUME NEW rows, Unique(rows)
    PROVE  /\ Unique(Cut(rows)) /\ ToSet(Cut(rows)) \subseteq ToSet(rows)
           /\ Len(Cut(rows)) <= Len(rows)
           /\ Len(Cut(rows)) < Len(rows) <=> ToSet(Cut(rows)) # ToSet(rows)
           /\ Top = 0 => Cut(rows) = rows
           /\ \A k \in DOMAIN rows : rows[k] \notin ToSet(Cut(rows)) => \A j \in DOMAIN Cut(rows) : j < k /\ j \in DOMAIN rows /\ Cut(rows)[j] = rows[j]
  <1>1. rows \in Seq(Ids) /\ Len(rows) \in Nat /\ DOMAIN rows = 1..Len(rows) /\ Top \in Nat
    BY QueriesAssumption DEF Unique
  <1>2. CASE Top = 0 \/ Len(rows) <= Top
    <2>1. Cut(rows) = rows
      BY <1>2 DEF Cut
    <2>2. \A k \in DOMAIN rows : rows[k] \in ToSet(rows)
      BY DEF ToSet
    <2> QED BY <1>1, <2>1, <2>2
  <1>3. CASE ~(Top = 0 \/ Len(rows) <= Top)
    <2>1. Cut(rows) = SubSeq(rows, 1, Top) /\ 1 <= Top /\ Top < Len(rows)
      BY <1>1, <1>3 DEF Cut
    <2>2. /\ Cut(rows) \in Seq(Ids) /\ Len(Cut(rows)) = Top /\ DOMAIN Cut(rows) = 1..Top
          /\ \A k \in 1..Top : k \in DOMAIN rows /\ Cut(rows)[k] = rows[k]
      <3>1. \A k \in 1..Top : k \in DOMAIN rows
        BY <1>1, <2>1
      <3>2. SubSeq(rows, 1, Top) = [k \in 1..Top |-> rows[k]]
        BY <1>1, <2>1
      <3>3. \A k \in 1..Top : rows[k] \in Ids
        BY <1>1, <3>1
      <3> QED BY <1>1, <2>1, <3>1, <3>2, <3>3
    <2>3. IsInjective(Cut(rows))
      BY <2>2 DEF IsInjective, Unique
    <2>4. ToSet(Cut(rows)) \subseteq ToSet(rows)
      BY <2>2 DEF ToSet
    <2>5. ASSUME NEW k \in DOMAIN rows, rows[k] \notin ToSet(Cut(rows)), NEW j \in DOMAIN Cut(rows)
          PROVE  j < k
      <3>1. ~(k <= Top)
        BY <1>1, <2>2, <2>5 DEF ToSet
      <3> QED BY <1>1, <2>2, <3>1
    <2>6. Unique(Cut(rows))
      BY <2>2, <2>3 DEF Unique
    <2>7. ToSet(Cut(rows)) # ToSet(rows)
      <3>1. Len(Cut(rows)) # Len(rows)
        BY <1>1, <2>1, <2>2
      <3> HIDE DEF Cut
      <3> QED BY <2>4, <2>6, <3>1, AllOrFewer
    <2>8. Len(Cut(rows)) < Len(rows) /\ Len(Cut(rows)) <= Len(rows) /\ Top # 0
      BY <1>1, <2>1, <2>2
    <2> QED BY <2>2, <2>4, <2>5, <2>6, <2>7, <2>8
  <1> QED BY <1>2, <1>3

(* The same rows, none behind one of lower spend.                          *)
LEMMA BySpendIs ==
    ASSUME NEW rows, Unique(rows), fact \in Attributes
    PROVE  /\ Unique(BySpend(rows)) /\ ToSet(BySpend(rows)) = ToSet(rows) /\ Len(BySpend(rows)) = Len(rows)
           /\ \A j, k \in DOMAIN BySpend(rows) : j < k => fact[BySpend(rows)[j]].spend >= fact[BySpend(rows)[k]].spend
  <1> DEFINE n == Len(rows)
             S == DOMAIN rows
             spend(k) == fact[rows[k]].spend
             ahead(k) == {j \in S : spend(j) > spend(k) \/ (spend(j) = spend(k) /\ j <= k)}
             upTo == [k \in S |-> ahead(k)]
             pick(m) == CHOOSE k \in S : Cardinality(ahead(k)) = m
             nth == [m \in S |-> pick(m)]
             sorted == BySpend(rows)
  <1>1. rows \in Seq(Ids) /\ n \in Nat /\ S = 1..n
    BY DEF Unique
  <1>2. \A k \in S : k \in Nat /\ rows[k] \in Ids /\ spend(k) \in Nat
    <2>1. \A k \in S : rows[k] \in Ids
      BY <1>1
    <2>2. \A i \in Ids : fact[i].spend \in Nat
      BY QueriesAssumption DEF Facts
    <2>3. \A k \in S : k \in Nat
      BY <1>1
    <2> QED BY <2>1, <2>2, <2>3
  <1>3. IsFiniteSet(S) /\ Cardinality(S) = n
    BY <1>1, UpToN
  <1>4. Nested(S, upTo)
    <2>1. upTo \in [S -> SUBSET S] /\ \A i \in S : i \in upTo[i]
      <3>1. \A i \in S : i <= i
        BY <1>1
      <3> HIDE DEF spend, S
      <3> QED BY <3>1
    <2>2. ASSUME NEW a \in S, NEW b \in S, spend(a) > spend(b) \/ (spend(a) = spend(b) /\ a < b)
          PROVE  upTo[a] \subseteq upTo[b] /\ b \notin upTo[a]
      <3>1. spend(a) \in Nat /\ spend(b) \in Nat /\ a \in Nat /\ b \in Nat
        <4> HIDE DEF S, spend
        <4> QED BY <1>2
      <3>2. ASSUME NEW j \in S, spend(j) > spend(a) \/ (spend(j) = spend(a) /\ j <= a)
            PROVE  spend(j) > spend(b) \/ (spend(j) = spend(b) /\ j <= b)
        <4>1. spend(j) \in Nat /\ j \in Nat
          <5> HIDE DEF S, spend
          <5> QED BY <1>2
        <4> HIDE DEF spend
        <4> QED BY <2>2, <3>1, <3>2, <4>1
      <3>3. ~(spend(b) > spend(a) \/ (spend(b) = spend(a) /\ b <= a))
        <4> HIDE DEF spend
        <4> QED BY <2>2, <3>1
      <3> HIDE DEF spend
      <3> QED BY <3>2, <3>3
    <2>3. ASSUME NEW a \in S, NEW b \in S, a # b
          PROVE  \/ spend(a) > spend(b) \/ (spend(a) = spend(b) /\ a < b)
                 \/ spend(b) > spend(a) \/ (spend(b) = spend(a) /\ b < a)
      <3>1. spend(a) \in Nat /\ spend(b) \in Nat /\ a \in Nat /\ b \in Nat
        <4> HIDE DEF S, spend
        <4> QED BY <1>2
      <3> HIDE DEF spend
      <3> QED BY <2>3, <3>1
    <2> HIDE DEF upTo, spend
    <2> QED BY <1>3, <2>1, <2>2, <2>3 DEF Nested
  <1>5. ByRank(S, upTo, nth)
    <2> SUFFICES ASSUME NEW m \in S, NEW i \in S, Cardinality(upTo[i]) = m
                 PROVE  nth[m] \in S /\ Cardinality(upTo[nth[m]]) = m
      <3> HIDE DEF upTo, nth, S
      <3> QED BY <1>1, <1>3 DEF ByRank
    <2>1. Cardinality(ahead(i)) = m
      <3> HIDE DEF ahead
      <3> QED OBVIOUS
    <2>2. pick(m) \in S /\ Cardinality(ahead(pick(m))) = m
      <3> HIDE DEF ahead
      <3> QED BY <2>1
    <2> HIDE DEF pick, ahead
    <2> QED BY <2>2
  <1>6. Counts(nth, S) /\ \A m \in S : Cardinality(upTo[nth[m]]) = m
    <2> HIDE DEF upTo, nth
    <2> QED BY <1>3, <1>4, <1>5, Ranks
  <1>7. sorted = [m \in S |-> rows[nth[m]]]
    <2>1. sorted = [m \in S |-> rows[pick(m)]]
      BY DEF BySpend
    <2> HIDE DEF pick
    <2> QED BY <2>1
  <1>8. /\ \A m \in S : nth[m] \in S
        /\ \A a, b \in S : nth[a] = nth[b] => a = b
        /\ \A k \in S : \E m \in S : nth[m] = k
    <2>1. S = 1..Cardinality(S)
      BY <1>1, <1>3
    <2> HIDE DEF upTo, nth, S
    <2> QED BY <1>6, <2>1 DEF Counts
  <1>9. sorted \in Seq(Ids) /\ Len(sorted) = n /\ DOMAIN sorted = S
    <2> HIDE DEF nth, sorted
    <2>1. \A m \in S : rows[nth[m]] \in Ids
      BY <1>2, <1>8
    <2> QED BY <1>1, <1>7, <2>1
  <1>10. IsInjective(sorted)
    <2> HIDE DEF nth, sorted, S
    <2>1. \A a, b \in S : sorted[a] = sorted[b] => a = b
      <3>1. \A a, b \in S : rows[a] = rows[b] => a = b
        BY DEF IsInjective, Unique, S
      <3> QED BY <1>7, <1>8, <3>1
    <2> QED BY <1>9, <2>1 DEF IsInjective
  <1>11. ToSet(sorted) = ToSet(rows)
    <2> HIDE DEF nth, sorted
    <2> QED BY <1>7, <1>8, <1>9 DEF ToSet
  <1>12. ASSUME NEW j \in S, NEW k \in S, j < k
         PROVE  spend(nth[j]) >= spend(nth[k])
    <2> DEFINE a == nth[j]
               b == nth[k]
    <2>1. a \in S /\ b \in S /\ a # b /\ Cardinality(upTo[a]) = j /\ Cardinality(upTo[b]) = k
      <3>1. j # k
        <4> HIDE DEF S
        <4> QED BY <1>2, <1>12
      <3> HIDE DEF upTo, nth, S
      <3> QED BY <1>6, <1>8, <3>1
    <2>2. a \in upTo[b]
      <3> SUFFICES ASSUME a \notin upTo[b] PROVE FALSE
        OBVIOUS
      <3> HIDE DEF upTo, nth, a, b, S
      <3>1. upTo[b] \in SUBSET upTo[a] /\ IsFiniteSet(upTo[a])
        <4>1. upTo[b] \subseteq upTo[a]
          BY <1>4, <2>1 DEF Nested
        <4>2. upTo[a] \subseteq S
          BY <1>4, <2>1 DEF Nested
        <4> QED BY <1>3, <4>1, <4>2, FS_Subset
      <3>2. k <= j
        BY <2>1, <3>1, FS_Subset
      <3>3. j \in Nat /\ k \in Nat
        BY <1>2
      <3> QED BY <1>12, <3>2, <3>3
    <2>3. spend(a) > spend(b) \/ spend(a) = spend(b)
      <3> HIDE DEF nth, a, b, spend
      <3> QED BY <2>1, <2>2
    <2>4. spend(a) \in Nat /\ spend(b) \in Nat
      <3> HIDE DEF nth, a, b, spend
      <3> QED BY <1>2, <2>1
    <2> HIDE DEF nth, spend
    <2> QED BY <2>3, <2>4
  <1>13. \A j, k \in S : j < k => fact[sorted[j]].spend >= fact[sorted[k]].spend
    <2> HIDE DEF nth, sorted
    <2> QED BY <1>7, <1>12
  <1> QED BY <1>9, <1>10, <1>11, <1>13 DEF Unique

-----------------------------------------------------------------------------
(* What the endpoints have                                                 *)

(* The official lists: no row twice.                                       *)
Listed == DOMAIN server = {"main", "side"} /\ Unique(server.main) /\ Unique(server.side)

(* What an endpoint has: no row twice, and those asked for.                *)
LEMMA WhereIs ==
    ASSUME Listed, NEW list \in {"main", "side"}, NEW ids
    PROVE  Unique(Where(list, ids)) /\ ToSet(Where(list, ids)) = ToSet(server[list]) \cap ids
  <1>1. server[list] \in Seq(Ids) /\ IsInjective(server[list])
    BY DEF Listed, Unique
  <1> QED BY <1>1, OnlyIs DEF Where, Unique

(* The list that is walked, and the part of it that is asked for.          *)
WalkedList(q) ==
    IF q.reads \in {"creators", "plan metadata", "promotions"} THEN "side" ELSE "main"
WalkedPart(q) ==
    CASE q.reads \in {"products", "materials", "promotions", "library", "images", "dpa products", "authorizations"} -> q.ask.ids
      [] q.reads = "plans" -> WithStatus(q.ask.status)
      [] q.reads \in {"plan materials", "plan metrics", "plan metadata", "plan report", "homepage"} -> Ids
      [] q.reads = "creators" -> q.ask.ids \cup {i \in Ids : fact[i].wanted}
      [] q.reads = "videos" -> {i \in Ids : q.product \in fact[i].products}
      [] q.reads = "material report" -> ToSet(q.kept)

(* What a query that compares keys, or a creator's videos, reads.          *)
LEMMA WalkedRows ==
    ASSUME NEW q, q.reads \in Compared \cup {"videos"}
    PROVE  Rows(q) = Where(WalkedList(q), WalkedPart(q))
  <1> USE DEF WalkedList, WalkedPart, Rows
  <1>1. CASE q.reads = "products"
    BY <1>1 DEF FetchProducts
  <1>2. CASE q.reads = "plans"
    BY <1>2 DEF FetchPlans
  <1>3. CASE q.reads = "plan materials"
    BY <1>3 DEF FetchPlanMaterials
  <1>4. CASE q.reads = "materials"
    BY <1>4 DEF FetchMaterialPage
  <1>5. CASE q.reads = "plan metrics"
    BY <1>5 DEF FetchPlanMetricPage
  <1>6. CASE q.reads = "plan metadata"
    BY <1>6 DEF FetchPlanMetadataPage
  <1>7. CASE q.reads = "plan report"
    BY <1>7 DEF FetchReportPage
  <1>8. CASE q.reads = "promotions"
    BY <1>8 DEF FetchPromotionPage
  <1>9. CASE q.reads = "material report"
    BY <1>9 DEF FetchReportPage
  <1>10. CASE q.reads = "authorizations"
    BY <1>10 DEF FetchCreatorAuthorizations
  <1>11. CASE q.reads = "homepage"
    BY <1>11 DEF FetchCreatorHomepage
  <1>12. CASE q.reads = "library"
    BY <1>12 DEF FetchLibraryVideos
  <1>13. CASE q.reads = "images"
    BY <1>13 DEF FetchLibraryImages
  <1>14. CASE q.reads = "dpa products"
    BY <1>14 DEF FetchDPAProducts
  <1>15. CASE q.reads = "creators"
    BY <1>15 DEF FetchAuthorizedCreators
  <1>16. CASE q.reads = "videos"
    BY <1>16 DEF FetchCreatorVideos
  <1> HIDE DEF WalkedList, WalkedPart, Rows
  <1> QED BY <1>1, <1>2, <1>3, <1>4, <1>5, <1>6, <1>7, <1>8, <1>9, <1>10, <1>11, <1>12, <1>13, <1>14, <1>15, <1>16
          DEF Compared, Paged, Library

(* What is read has no row twice.                                          *)
LEMMA RowsAre ==
    ASSUME Listed, NEW q, q.reads \in Compared \cup {"videos"}
    PROVE  Unique(Rows(q)) /\ ToSet(Rows(q)) = ToSet(server[WalkedList(q)]) \cap WalkedPart(q)
  <1>1. WalkedList(q) \in {"main", "side"}
    BY DEF WalkedList
  <1> QED BY <1>1, WalkedRows, WhereIs

-----------------------------------------------------------------------------
(* Pages                                                                   *)

(* The fields of a query.                                                  *)
LEMMA Fields ==
    QueryFields = {"pc", "ask", "reads", "page", "got", "pages", "total", "kept", "truncated", "cursor",
                   "cursors", "creator", "product", "answer"}
  BY DEF QueryFields, Unasked

(* A page declares how long its list is, and the first shows all of a list *)
(* that has no second.                                                     *)
LEMMA PageIs ==
    ASSUME NEW rows, Unique(rows), NEW n \in Nat \ {0}
    PROVE  /\ Page(rows, n).pages \in Nat /\ Page(rows, n).total = Len(rows) /\ Len(rows) \in Nat
           /\ Page(rows, n).pages = 0 <=> ToSet(rows) = {}
           /\ Unique(Page(rows, n).rows) /\ ToSet(Page(rows, n).rows) \subseteq ToSet(rows)
           /\ n = 1 => (ToSet(Page(rows, n).rows) # ToSet(rows) <=> 1 < Page(rows, n).pages)
  <1> DEFINE len == Len(rows)
             from == (n - 1) * PageSize
             pages == (len + PageSize - 1) \div PageSize
  <1>1. len \in Nat /\ PageSize \in Nat \ {0}
    BY UniqueLen, QueriesAssumption
  <1>2. /\ Page(rows, n).pages = pages /\ Page(rows, n).total = len
        /\ Page(rows, n).rows = Slice(rows, from)
    BY DEF Page
  <1>3. /\ pages \in Nat
        /\ pages = 0 <=> len = 0
        /\ 1 < pages <=> len > PageSize
    <2> HIDE DEF len
    <2>1. \A x \in Nat, k \in Nat \ {0} :
             /\ (x + k - 1) \div k \in Nat
             /\ (x + k - 1) \div k = 0 <=> x = 0
             /\ 1 < (x + k - 1) \div k <=> x > k
      <3> SUFFICES ASSUME NEW x \in Nat, NEW k \in Nat \ {0}
                   PROVE  LET d == (x + k - 1) \div k
                          IN  d \in Nat /\ (d = 0 <=> x = 0) /\ (1 < d <=> x > k)
        OBVIOUS
      <3> DEFINE d == (x + k - 1) \div k
                 m == (x + k - 1) % k
      <3>1. x + k - 1 \in Nat
        OBVIOUS
      <3>2. d \in Nat /\ m \in 0..(k - 1) /\ x + k - 1 = k * d + m
        BY <3>1
      <3> HIDE DEF d, m
      <3>3. d = 0 => x = 0
        BY <3>2
      <3>4. d >= 1 => k * d >= k
        BY <3>2
      <3>5. d >= 2 => k * d >= k + k
        BY <3>2
      <3>6. d = 1 => x + k - 1 = k + m
        BY <3>2
      <3>7. x = 0 => d = 0
        <4>1. d >= 1 => x + k - 1 >= k
          BY <3>2, <3>4
        <4> QED BY <3>2, <4>1
      <3>8. 1 < d => x > k
        <4>1. d >= 2 => x + k - 1 >= k + k
          <5>1. k * d \in Nat
            BY <3>2
          <5> QED BY <3>2, <3>5, <5>1
        <4> QED BY <3>2, <4>1
      <3>9. x > k => 1 < d
        BY <3>2, <3>3, <3>6
      <3> QED BY <3>2, <3>3, <3>7, <3>8, <3>9 DEF d
    <2> QED BY <1>1, <2>1
  <1>4. from \in Nat /\ (n = 1 => from = 0)
    BY <1>1
  <1> HIDE DEF from, pages
  <1>5. /\ Unique(Slice(rows, from)) /\ ToSet(Slice(rows, from)) \subseteq ToSet(rows)
        /\ n = 1 /\ len <= PageSize => Slice(rows, from) = rows
        /\ n = 1 /\ len > PageSize => Len(Slice(rows, from)) = PageSize
    BY <1>4, SliceIs
  <1>6. n = 1 /\ len > PageSize => ToSet(Slice(rows, from)) # ToSet(rows)
    BY <1>1, <1>5, AllOrFewer
  <1>7. len = 0 <=> ToSet(rows) = {}
    BY <1>1, UniqueLen, FS_EmptySet
  <1> QED BY <1>1, <1>2, <1>3, <1>5, <1>6, <1>7

(* What of a query its way and its earlier walks depend on.                *)
SameAsk(q, w) ==
    /\ w.ask = q.ask /\ w.reads = q.reads /\ w.kept = q.kept
    /\ w.creator = q.creator /\ w.product = q.product

(* A walk at its end.                                                      *)
Walked(q, by) ==
    /\ DOMAIN q = QueryFields /\ q.ask \in Question
    /\ Routed(q) /\ AskedBy(q, by) /\ KeptSoFar(q)
    /\ q.reads \in Compared =>
          /\ Unique(q.got) /\ ToSet(q.got) \subseteq ToSet(Rows(q))
          /\ q.ask.start = 1 /\ ~q.ask.single /\ ~q.truncated => ToSet(q.got) = ToSet(Rows(q))
          /\ q.ask.start = 1 /\ q.ask.single
                => (ToSet(q.got) # ToSet(Rows(q)) <=> q.page - 1 < q.pages)
    /\ q.reads = "videos" => Unique(q.got)
    /\ q.truncated \in BOOLEAN /\ (q.truncated => q.reads = "creators")

(* What holds of the way of a query holds as long as its ask and what it   *)
(* kept stay.                                                              *)
LEMMA SameWay ==
    ASSUME NEW q, NEW w, NEW by, SameAsk(q, w), Routed(q), AskedBy(q, by), KeptSoFar(q)
    PROVE  /\ Routed(w) /\ AskedBy(w, by) /\ KeptSoFar(w)
           /\ q.reads \in Compared \cup {"videos"} => Rows(w) = Rows(q)
  <1>1. Routed(w)
    BY DEF SameAsk, Routed
  <1>2. AskedBy(w, by)
    BY DEF SameAsk, AskedBy
  <1>3. KeptSoFar(w)
    BY DEF SameAsk, KeptSoFar
  <1>4. q.reads \in Compared \cup {"videos"} => Rows(w) = Rows(q)
    <2>1. WalkedList(w) = WalkedList(q) /\ WalkedPart(w) = WalkedPart(q)
      BY DEF SameAsk, WalkedList, WalkedPart
    <2>2. w.reads = q.reads
      BY DEF SameAsk
    <2> QED BY <2>1, <2>2, WalkedRows
  <1> QED BY <1>1, <1>2, <1>3, <1>4

(* What one more page makes of a query.                                    *)
LEMMA TurnIs ==
    ASSUME NEW q, DOMAIN q = QueryFields, NEW page
    PROVE  LET t == Turn(q, page)
               e == End(q, page)
           IN /\ DOMAIN t = QueryFields /\ DOMAIN e = QueryFields
              /\ SameAsk(q, t) /\ SameAsk(q, e)
              /\ t.pc = q.pc /\ e.pc = "walked"
              /\ t.page = q.page + 1 /\ t.got = q.got \o page.rows /\ t.pages = page.pages /\ t.total = page.total
              /\ e.page = q.page + 1 /\ e.got = q.got \o page.rows /\ e.pages = page.pages
              /\ t.truncated = q.truncated /\ e.truncated = q.truncated /\ t.cursor = q.cursor
  BY Fields DEF Turn, End, SameAsk

-----------------------------------------------------------------------------
(* Walks: a page refuses the query, ends the walk or goes on with it       *)

(* The pages of the walks that compare keys are numbered.                  *)
LEMMA NextPageIs ==
    ASSUME query.reads \in Compared
    PROVE  NextPage = Page(Rows(query), query.page)
  <1>1. query.reads # "videos" /\ query.reads \notin AtOnce
    BY DEF Compared, Paged, Library, AtOnce
  <1> QED BY <1>1 DEF NextPage

(* What a walk that compares keys has with the rows of one more page.      *)
LEMMA Gathered ==
    ASSUME Listed, NEW q, NEW by, Walking(q, by), q.reads \in Compared,
           NEW page, page = Page(Rows(q), q.page), ~Repeats(q, page)
    PROVE  LET got == q.got \o page.rows
           IN /\ Unique(got) /\ ToSet(got) \subseteq ToSet(Rows(q))
              /\ page.pages = 0 \/ Len(got) = page.total => ToSet(got) = ToSet(Rows(q))
              /\ q.ask.start = 1 /\ q.ask.single => q.page = 1 /\ (ToSet(got) # ToSet(Rows(q)) <=> 1 < page.pages)
  <1> DEFINE got == q.got \o page.rows
  <1>1. /\ q.page \in Nat \ {0} /\ Unique(q.got) /\ ToSet(q.got) \subseteq ToSet(Rows(q))
        /\ q.ask.single => q.page = q.ask.start /\ q.got = << >>
    BY DEF Walking, ReadSoFar
  <1>2. Unique(Rows(q))
    BY RowsAre
  <1>3. /\ page.pages \in Nat /\ page.total = Len(Rows(q)) /\ Len(Rows(q)) \in Nat
        /\ page.pages = 0 <=> ToSet(Rows(q)) = {}
        /\ Unique(page.rows) /\ ToSet(page.rows) \subseteq ToSet(Rows(q))
        /\ q.page = 1 => (ToSet(page.rows) # ToSet(Rows(q)) <=> 1 < page.pages)
    BY <1>1, <1>2, PageIs
  <1>4. got \in Seq(Ids) /\ ToSet(got) = ToSet(q.got) \cup ToSet(page.rows)
    BY <1>1, <1>3, Joins DEF Unique
  <1>5. Unique(got)
    BY <1>4 DEF Unique, Repeats
  <1>6. Len(got) = page.total => ToSet(got) = ToSet(Rows(q))
    <2> HIDE DEF got
    <2> QED BY <1>1, <1>2, <1>3, <1>4, <1>5, AllOrFewer
  <1>7. q.got = << >> => got = page.rows
    BY <1>3 DEF Unique
  <1> QED BY <1>1, <1>3, <1>4, <1>5, <1>6, <1>7

(* The last page, when nothing came twice and all are there.               *)
LEMMA EndIsWalked ==
    ASSUME Listed, NEW q, NEW by, Walking(q, by), q.reads \in Compared,
           NEW page, page = Page(Rows(q), q.page), ~Repeats(q, page),
           q.ask.start = 1 /\ ~q.ask.single => page.pages = 0 \/ Len(Turn(q, page).got) = page.total
    PROVE  Walked(End(q, page), by)
  <1> DEFINE e == End(q, page)
             t == Turn(q, page)
  <1>1. /\ DOMAIN e = QueryFields /\ SameAsk(q, e)
        /\ e.page = q.page + 1 /\ e.got = q.got \o page.rows /\ e.pages = page.pages /\ e.truncated = q.truncated
        /\ t.got = q.got \o page.rows
    <2>1. DOMAIN q = QueryFields
      BY DEF Walking
    <2>2. DOMAIN e = QueryFields /\ SameAsk(q, e)
      BY <2>1, TurnIs
    <2>3. e.page = q.page + 1 /\ e.got = q.got \o page.rows /\ e.pages = page.pages /\ e.truncated = q.truncated
      BY <2>1, Fields DEF End, Turn
    <2>4. t.got = q.got \o page.rows
      BY <2>1, TurnIs
    <2> QED BY <2>2, <2>3, <2>4
  <1>2. Routed(e) /\ AskedBy(e, by) /\ KeptSoFar(e) /\ Rows(e) = Rows(q)
    BY <1>1, SameWay DEF Walking
  <1>3. e.ask = q.ask /\ e.reads = q.reads
    BY <1>1 DEF SameAsk
  <1>4. ~q.truncated /\ q.ask \in Question
    BY DEF Walking
  <1>5. /\ Unique(e.got) /\ ToSet(e.got) \subseteq ToSet(Rows(e))
        /\ e.ask.start = 1 /\ ~e.ask.single => ToSet(e.got) = ToSet(Rows(e))
        /\ e.ask.start = 1 /\ e.ask.single => e.page = 2 /\ (ToSet(e.got) # ToSet(Rows(e)) <=> 1 < e.pages)
    <2> DEFINE got == q.got \o page.rows
    <2>1. /\ Unique(got) /\ ToSet(got) \subseteq ToSet(Rows(q))
          /\ page.pages = 0 \/ Len(got) = page.total => ToSet(got) = ToSet(Rows(q))
          /\ q.ask.start = 1 /\ q.ask.single => q.page = 1 /\ (ToSet(got) # ToSet(Rows(q)) <=> 1 < page.pages)
      BY Gathered
    <2>2. q.ask.start = 1 /\ ~q.ask.single => page.pages = 0 \/ Len(got) = page.total
      BY <1>1
    <2>3. e.got = got
      BY <1>1
    <2> HIDE DEF e, got
    <2> QED BY <1>1, <1>2, <1>3, <2>1, <2>2, <2>3
  <1>6. e.reads # "videos"
    BY <1>3 DEF Compared, Paged, Library
  <1>7. e.truncated = FALSE
    BY <1>1, <1>4 DEF Walking
  <1> HIDE DEF e
  <1>8. e.ask.start = 1 /\ e.ask.single => (ToSet(e.got) # ToSet(Rows(e)) <=> e.page - 1 < e.pages)
    BY <1>5
  <1> QED BY <1>1, <1>2, <1>3, <1>4, <1>5, <1>6, <1>7, <1>8 DEF Walked, e

(* A page that is not the last, when nothing came twice.                   *)
LEMMA TurnIsWalking ==
    ASSUME Listed, NEW q, NEW by, Walking(q, by), q.reads \in Compared, ~q.ask.single,
           NEW page, page = Page(Rows(q), q.page), ~Repeats(q, page)
    PROVE  Walking(Turn(q, page), by)
  <1> DEFINE t == Turn(q, page)
  <1>1. /\ DOMAIN t = QueryFields /\ SameAsk(q, t)
        /\ t.page = q.page + 1 /\ t.got = q.got \o page.rows /\ t.truncated = q.truncated
    BY TurnIs DEF Walking
  <1>2. Routed(t) /\ AskedBy(t, by) /\ KeptSoFar(t) /\ Rows(t) = Rows(q)
    BY <1>1, SameWay DEF Walking
  <1>3. t.ask = q.ask /\ t.reads = q.reads
    BY <1>1 DEF SameAsk
  <1>4. Unique(t.got) /\ ToSet(t.got) \subseteq ToSet(Rows(t))
    <2> HIDE DEF t
    <2> QED BY <1>1, <1>2, <1>3, Gathered
  <1>5. t.reads \notin {"videos"} \cup OneRead
    BY <1>3 DEF Compared, Paged, Library, OneRead
  <1>6. t.page \in Nat \ {0}
    BY <1>1 DEF Walking, ReadSoFar
  <1> HIDE DEF t
  <1>7. ReadSoFar(t)
    BY <1>3, <1>4, <1>5, <1>6 DEF ReadSoFar
  <1> QED BY <1>1, <1>2, <1>3, <1>7 DEF Walking, t

(* What a true page makes of a query.                                      *)
GoesOn(q, w, by) ==
    \/ w = Refuse(q)
    \/ w.pc = "walking" /\ Walking(w, by)
    \/ w.pc = "walked" /\ Walked(w, by)

(* CollectPages, CollectVideos and CollectAuthorizedCreators.              *)
LEMMA ComparedGoes ==
    ASSUME Listed, NEW q, NEW by, Walking(q, by), q.pc = "walking", q.reads \in Compared,
           NEW page, page = Page(Rows(q), q.page)
    PROVE  /\ GoesOn(q, CollectPages(q, page), by)
           /\ GoesOn(q, CollectVideos(q, page), by)
           /\ q.reads = "creators" => GoesOn(q, CollectAuthorizedCreators(q, page), by)
  <1> DEFINE t == Turn(q, page)
             e == End(q, page)
             cut == [e EXCEPT !.truncated = TRUE]
             whole == page.pages = 0 \/ Len(t.got) = page.total
             may == q.ask.start = 1 /\ ~q.ask.single => whole
  <1>1. DOMAIN q = QueryFields /\ q.ask.single \in BOOLEAN
    BY DEF Walking, Question
  <1>2. ~Repeats(q, page) /\ may => e.pc = "walked" /\ Walked(e, by)
    BY <1>1, EndIsWalked, TurnIs
  <1>3. ~Repeats(q, page) /\ ~q.ask.single => t.pc = "walking" /\ Walking(t, by)
    BY <1>1, TurnIsWalking, TurnIs
  <1>4. ~Repeats(q, page) /\ q.reads = "creators" => cut.pc = "walked" /\ Walked(cut, by)
    <2> SUFFICES ASSUME ~Repeats(q, page), q.reads = "creators" PROVE cut.pc = "walked" /\ Walked(cut, by)
      OBVIOUS
    <2>1. /\ DOMAIN e = QueryFields /\ SameAsk(q, e) /\ e.pc = "walked" /\ e.got = q.got \o page.rows
      BY <1>1, TurnIs
    <2>2. /\ DOMAIN cut = QueryFields /\ SameAsk(q, cut) /\ cut.pc = "walked" /\ cut.got = q.got \o page.rows
          /\ cut.truncated
      <3> HIDE DEF e
      <3> QED BY <2>1, Fields DEF SameAsk
    <2> HIDE DEF cut
    <2>3. Routed(cut) /\ AskedBy(cut, by) /\ KeptSoFar(cut) /\ Rows(cut) = Rows(q)
      BY <2>2, SameWay DEF Walking
    <2>4. cut.ask = q.ask /\ cut.reads = "creators" /\ q.ask \in Question
      BY <2>2 DEF SameAsk, Walking
    <2>5. Unique(cut.got) /\ ToSet(cut.got) \subseteq ToSet(Rows(cut)) /\ ~cut.ask.single
      <3>1. Unique(q.got \o page.rows) /\ ToSet(q.got \o page.rows) \subseteq ToSet(Rows(q))
        BY Gathered
      <3>2. ~cut.ask.single
        BY <2>3, <2>4 DEF Routed, FromTheFirst
      <3> QED BY <2>2, <2>3, <3>1, <3>2
    <2> QED BY <2>2, <2>3, <2>4, <2>5 DEF Walked
  <1>5. q.reads = "creators" => q.ask.start = 1 /\ ~q.ask.single
    BY DEF Walking, Routed, FromTheFirst
  <1> HIDE DEF t, e
  <1>6. LET w == CollectPages(q, page)
        IN \/ w = Refuse(q)
           \/ ~Repeats(q, page) /\ may /\ w = e
           \/ ~Repeats(q, page) /\ ~q.ask.single /\ w = t
    BY <1>1 DEF CollectPages, t, e
  <1>7. LET w == CollectVideos(q, page)
        IN \/ w = Refuse(q)
           \/ ~Repeats(q, page) /\ may /\ w = e
           \/ ~Repeats(q, page) /\ ~q.ask.single /\ w = t
    BY <1>1 DEF CollectVideos, t, e
  <1>8. LET w == CollectAuthorizedCreators(q, page)
        IN \/ w = Refuse(q)
           \/ ~Repeats(q, page) /\ whole /\ w = e
           \/ ~Repeats(q, page) /\ w = cut
           \/ ~Repeats(q, page) /\ w = t
    BY DEF CollectAuthorizedCreators, t, e
  <1> HIDE DEF cut
  <1> QED BY <1>2, <1>3, <1>4, <1>5, <1>6, <1>7, <1>8 DEF GoesOn

(* The cursor of a creator's videos: what is new is added, nothing twice.  *)
LEMMA VideosGo ==
    ASSUME Listed, NEW q, NEW by, Walking(q, by), q.pc = "walking", q.reads = "videos",
           NEW page, page = CursorPage(Rows(q), q.cursor)
    PROVE  GoesOn(q, CollectCreatorVideos(q, page), by)
  <1> DEFINE from == IF q.cursor = None THEN 0 ELSE q.cursor
             t == [q EXCEPT !.page = @ + 1, !.got = Unseen(@, page.rows),
                            !.cursor = page.next, !.cursors = @ \cup {page.next}]
             w == [t EXCEPT !.pc = "walked"]
  <1>1. DOMAIN q = QueryFields /\ ~q.truncated /\ q.ask \in Question /\ Routed(q) /\ AskedBy(q, by) /\ KeptSoFar(q)
    BY DEF Walking
  <1>2. q.page \in Nat \ {0} /\ Unique(q.got) /\ q.cursor \in Nat \cup {None}
    BY DEF Walking, ReadSoFar
  <1>3. from \in Nat
    BY <1>2
  <1> HIDE DEF from
  <1>4. page.rows = Slice(Rows(q), from) /\ page.next = from + PageSize
    BY DEF CursorPage, from
  <1>5. Unique(page.rows) /\ page.next \in Nat
    <2>1. Unique(Rows(q))
      BY RowsAre
    <2>2. Unique(Slice(Rows(q), from))
      BY <1>3, <2>1, SliceIs
    <2> QED BY <1>3, <1>4, <2>2, QueriesAssumption
  <1>6. Unique(Unseen(q.got, page.rows))
    BY <1>2, <1>5, UnseenIs
  <1>7. /\ DOMAIN t = QueryFields /\ SameAsk(q, t) /\ t.pc = "walking" /\ t.truncated = q.truncated
        /\ t.page = q.page + 1 /\ t.got = Unseen(q.got, page.rows) /\ t.cursor = page.next
    BY <1>1, Fields DEF SameAsk
  <1> HIDE DEF t
  <1>8. /\ DOMAIN w = QueryFields /\ SameAsk(q, w) /\ w.pc = "walked" /\ w.truncated = q.truncated
        /\ w.got = t.got
    BY <1>7, Fields DEF SameAsk
  <1> HIDE DEF w
  <1>9. Walking(t, by)
    <2>1. Routed(t) /\ AskedBy(t, by) /\ KeptSoFar(t)
      BY <1>1, <1>7, SameWay
    <2>2. t.ask = q.ask /\ t.reads = "videos" /\ ~q.ask.single
      BY <1>1, <1>7 DEF SameAsk, Routed, FromTheFirst
    <2>3. t.reads \notin Compared \cup OneRead
      BY <2>2 DEF Compared, Paged, Library, OneRead
    <2>4. ReadSoFar(t)
      BY <1>2, <1>5, <1>6, <1>7, <2>2, <2>3 DEF ReadSoFar
    <2> QED BY <1>1, <1>7, <2>1, <2>2, <2>4 DEF Walking
  <1>10. Walked(w, by)
    <2>1. Routed(w) /\ AskedBy(w, by) /\ KeptSoFar(w)
      BY <1>1, <1>8, SameWay
    <2>2. w.ask = q.ask /\ w.reads = "videos" /\ w.truncated = FALSE
      BY <1>1, <1>8 DEF SameAsk, Walking
    <2>3. w.reads \notin Compared
      BY <2>2 DEF Compared, Paged, Library
    <2> QED BY <1>1, <1>6, <1>7, <1>8, <2>1, <2>2, <2>3 DEF Walked
  <1>11. CollectCreatorVideos(q, page) \in {Refuse(q), t, w}
    BY DEF CollectCreatorVideos, t, w
  <1> QED BY <1>7, <1>8, <1>9, <1>10, <1>11 DEF GoesOn

(* The other walks compare nothing.                                        *)
LEMMA Loose ==
    ASSUME NEW q, NEW by, Walking(q, by), q.reads \notin Compared \cup {"videos"},
           NEW w, DOMAIN w = QueryFields, SameAsk(q, w), w.truncated = q.truncated, w.page = q.page + 1
    PROVE  /\ ~q.ask.single /\ q.reads \notin OneRead => Walking(w, by)
           /\ Walked(w, by)
  <1>1. /\ ~q.truncated /\ q.ask \in Question /\ Routed(q) /\ AskedBy(q, by) /\ KeptSoFar(q)
        /\ q.page \in Nat \ {0}
    BY DEF Walking, ReadSoFar
  <1>2. Routed(w) /\ AskedBy(w, by) /\ KeptSoFar(w)
    BY <1>1, SameWay
  <1>3. w.ask = q.ask /\ w.reads = q.reads
    BY DEF SameAsk
  <1>4. q.truncated = FALSE /\ w.truncated = FALSE
    BY <1>1 DEF Walking
  <1>5. Walked(w, by)
    BY <1>1, <1>2, <1>3, <1>4 DEF Walked
  <1>6. ~q.ask.single /\ q.reads \notin OneRead => ReadSoFar(w)
    BY <1>1, <1>3 DEF ReadSoFar
  <1> QED BY <1>1, <1>2, <1>3, <1>4, <1>5, <1>6 DEF Walking

(* Diagnose, AwaitCovers, CollectUnified and ResolveCountry.               *)
LEMMA LooseGoes ==
    ASSUME NEW q, NEW by, Walking(q, by), q.pc = "walking", q.reads \notin Compared \cup {"videos"}, NEW page
    PROVE  GoesOn(q, Walk(q, page), by)
  <1> DEFINE t == Turn(q, page)
             e == End(q, page)
             p == [q EXCEPT !.page = @ + 1]
             g == [q EXCEPT !.page = @ + 1, !.got = page.rows]
             h == [g EXCEPT !.pc = "walked"]
  <1>1. DOMAIN q = QueryFields /\ q.ask \in Question /\ Routed(q)
    BY DEF Walking
  <1>2. /\ DOMAIN t = QueryFields /\ SameAsk(q, t) /\ t.truncated = q.truncated /\ t.page = q.page + 1 /\ t.pc = "walking"
        /\ DOMAIN e = QueryFields /\ SameAsk(q, e) /\ e.truncated = q.truncated /\ e.page = q.page + 1 /\ e.pc = "walked"
    BY <1>1, TurnIs
  <1>3. /\ DOMAIN p = QueryFields /\ SameAsk(q, p) /\ p.truncated = q.truncated /\ p.page = q.page + 1 /\ p.pc = "walking"
        /\ DOMAIN g = QueryFields /\ SameAsk(q, g) /\ g.truncated = q.truncated /\ g.page = q.page + 1 /\ g.pc = "walking"
    BY <1>1, Fields DEF SameAsk
  <1>4. /\ DOMAIN h = QueryFields /\ SameAsk(q, h) /\ h.truncated = q.truncated /\ h.page = q.page + 1 /\ h.pc = "walked"
    BY <1>1, Fields DEF SameAsk
  <1> HIDE DEF t, e, p, g, h
  <1>5. Walked(e, by) /\ Walked(h, by)
    BY <1>2, <1>4, Loose
  <1>6. ~q.ask.single /\ q.reads \notin OneRead => Walking(t, by) /\ Walking(p, by) /\ Walking(g, by)
    BY <1>2, <1>3, Loose
  <1>7. /\ q.reads \notin OneRead => q.ask.walk \in {"one", "covers", "unified", "cities"}
        /\ q.reads \in OneRead => q.ask.walk = "pages"
        /\ q.ask.walk \in {"covers", "unified", "cities"} => ~q.ask.single
    BY <1>1 DEF Routed, Compared, Question
  <1>8. CASE q.ask.walk = "one" \/ q.reads \in OneRead
    <2>1. Walk(q, page) = e
      BY <1>8 DEF Walk, Diagnose, OneRead, e
    <2> QED BY <1>2, <1>5, <2>1 DEF GoesOn
  <1>9. CASE q.ask.walk = "covers" /\ q.reads \notin OneRead
    <2>1. Walk(q, page) = AwaitCovers(q, page)
      BY <1>9 DEF Walk, OneRead
    <2>2. AwaitCovers(q, page) \in {p, e}
      BY DEF AwaitCovers, p, e
    <2> QED BY <1>2, <1>3, <1>5, <1>6, <1>7, <1>9, <2>1, <2>2 DEF GoesOn
  <1>10. CASE q.ask.walk = "unified" /\ q.reads \notin OneRead
    <2>1. Walk(q, page) = CollectUnified(q, page)
      BY <1>10 DEF Walk, OneRead
    <2>2. CollectUnified(q, page) \in {Refuse(q), t, e}
      BY DEF CollectUnified, t, e
    <2> QED BY <1>2, <1>5, <1>6, <1>7, <1>10, <2>1, <2>2 DEF GoesOn
  <1>11. CASE q.ask.walk = "cities" /\ q.reads \notin OneRead
    <2>1. Walk(q, page) = ResolveCountry(q, page)
      BY <1>11 DEF Walk, OneRead
    <2>2. ResolveCountry(q, page) \in {g, h}
      BY DEF ResolveCountry, g, h
    <2> QED BY <1>3, <1>4, <1>5, <1>6, <1>7, <1>11, <2>1, <2>2 DEF GoesOn
  <1> QED BY <1>7, <1>8, <1>9, <1>10, <1>11

(* A true page refuses a query, ends the walk or goes on with it.          *)
LEMMA WalkGoes ==
    ASSUME Listed, Walking(query, tool), query.pc = "walking"
    PROVE  GoesOn(query, Walk(query, NextPage), tool)
  <1>1. query.ask \in Question /\ Routed(query)
    BY DEF Walking
  <1>2. CASE query.reads \in Compared
    <2>1. NextPage = Page(Rows(query), query.page)
      BY <1>2, NextPageIs
    <2> DEFINE page == NextPage
    <2>2. /\ GoesOn(query, CollectPages(query, page), tool)
          /\ GoesOn(query, CollectVideos(query, page), tool)
          /\ query.reads = "creators" => GoesOn(query, CollectAuthorizedCreators(query, page), tool)
      <3> HIDE DEF page
      <3> QED BY <1>2, <2>1, ComparedGoes DEF page
    <2>3. query.reads \in Paged => Walk(query, page) = CollectPages(query, page)
      BY <1>1 DEF Walk, Routed, Paged
    <2>4. query.reads \in Library => Walk(query, page) = CollectVideos(query, page)
      BY <1>1 DEF Walk, Routed, Library
    <2>5. query.reads = "creators" => Walk(query, page) = CollectAuthorizedCreators(query, page)
      BY <1>1 DEF Walk, Routed
    <2> QED BY <1>2, <2>2, <2>3, <2>4, <2>5 DEF Compared
  <1>3. CASE query.reads = "videos"
    <2>1. NextPage = CursorPage(Rows(query), query.cursor)
      BY <1>3 DEF NextPage, AtOnce
    <2>2. Walk(query, NextPage) = CollectCreatorVideos(query, NextPage)
      BY <1>1, <1>3 DEF Walk, Routed
    <2> QED BY <1>3, <2>1, <2>2, VideosGo
  <1>4. CASE query.reads \notin Compared \cup {"videos"}
    BY <1>4, LooseGoes
  <1> QED BY <1>2, <1>3, <1>4

-----------------------------------------------------------------------------
(* Answers                                                                 *)

(* What the properties say of an answer, for any query.                    *)
CompleteAnswer(q) ==
    /\ q.ask.start = 1 /\ ~q.ask.single /\ ~q.truncated
    /\ q.ask.walk \in {"pages", "library"} \/ q.reads = "creators"
    => ToSet(q.got) = ToSet(Rows(q)) /\ IsInjective(q.got)

(* ReportIsTrue, of any query.                                             *)
Reports == {"plan metrics", "plan metadata", "plan report", "promotions", "material report"}
TrueReport(q) ==
    q.ask.start = 1 /\ ~q.ask.single /\ q.reads \in Reports
    => LET shown == ToSet(q.answer.rows)
           all == ToSet(q.answer.all)
           asked == WithStatus(q.ask.status)
       IN IF q.reads \in {"promotions", "material report"}
          THEN /\ shown = ToSet(server.side) \cap q.ask.ids \cap asked
               /\ all = shown \cap ToSet(server.main)
          ELSE /\ all = ToSet(server.main) \cap asked
               /\ shown \subseteq all /\ (Top = 0 => shown = all)
               /\ \A i \in shown, j \in all \ shown : fact[i].spend >= fact[j].spend

(* ToolsTellWhatIsLeftOut, of any query and tool.                          *)
ShownBy(q, by) == IF by \in {"products", "material report"} THEN Cut(q.answer.rows) ELSE q.answer.rows
MoreBy(q, by) ==
    IF by \in {"videos", "creator materials"} THEN q.page - 1 < q.pages
    ELSE Len(ShownBy(q, by)) < IF by = "material report" THEN Len(q.answer.rows) ELSE Len(q.answer.all)
OnePage == {"videos", "creator materials"}
WantedBy(q, by) ==
    CASE by = "products" -> ToSet(Where("main", q.ask.ids))
      [] by = "plans" -> ToSet(Where("main", WithStatus(q.ask.status)))
      [] by = "videos" -> ToSet(Where("main", q.ask.ids)) \cap WithStatus(q.ask.status)
      [] by \in {"creator materials", "plan report", "project report"} -> ToSet(server.main) \cap WithStatus(q.ask.status)
      [] by = "material report" -> ToSet(server.side) \cap q.ask.ids \cap WithStatus(q.ask.status)
Tells(shown, wanted, more) ==
    shown \subseteq wanted /\ (~more => shown = wanted) /\ (more => shown # wanted)
ToolTells(q, by) ==
    by \notin {None, "plan", "account"} /\ q.ask.start = 1
    => IF by \in OnePage
       THEN /\ ToSet(ShownBy(q, by)) \subseteq WantedBy(q, by)
            /\ ~MoreBy(q, by) => ToSet(ShownBy(q, by)) = WantedBy(q, by)
            /\ MoreBy(q, by) => ToSet(q.got) # ToSet(Rows(q))
       ELSE Tells(ToSet(ShownBy(q, by)), WantedBy(q, by), MoreBy(q, by))

(* CreatorIsTheOnlyMatch, of any query.                                    *)
CreatorHolds(q) ==
    q.creator # None => {i \in ToSet(server.side) : fact[i].wanted} = {q.creator} /\ IsInjective(q.kept)

(* A query that is read on, answered truly or refused.                     *)
Settles(q, by) ==
    /\ DOMAIN q = QueryFields /\ CreatorHolds(q)
    /\ \/ q.pc = "refused"
       \/ q.pc = "walking" /\ Walking(q, by)
       \/ q.pc = "answered" /\ CompleteAnswer(q) /\ TrueReport(q) /\ ToolTells(q, by)

(* An answered query.                                                      *)
LEMMA AnswerIs ==
    ASSUME NEW q, DOMAIN q = QueryFields, NEW rows, NEW all
    PROVE  LET a == Answer(q, rows, all)
           IN /\ DOMAIN a = QueryFields /\ SameAsk(q, a) /\ a.pc = "answered"
              /\ a.got = q.got /\ a.page = q.page /\ a.pages = q.pages /\ a.truncated = q.truncated
              /\ a.answer.rows = rows /\ a.answer.all = all
  BY Fields DEF Answer, SameAsk

(* The creator found holds for the query that asked for its videos.        *)
LEMMA CreatorKept ==
    ASSUME NEW q, KeptSoFar(q)
    PROVE  CreatorHolds(q)
  BY DEF KeptSoFar, CreatorHolds, Unique

(* A refused query.                                                        *)
LEMMA Refused ==
    ASSUME NEW q, NEW by, DOMAIN q = QueryFields, KeptSoFar(q)
    PROVE  Settles(Refuse(q), by)
  <1> DEFINE r == Refuse(q)
  <1>1. DOMAIN r = QueryFields /\ r.pc = "refused" /\ r.creator = q.creator /\ r.kept = q.kept
    BY Fields DEF Refuse
  <1> HIDE DEF r
  <1>2. CreatorHolds(r)
    BY <1>1, CreatorKept DEF CreatorHolds
  <1> QED BY <1>1, <1>2 DEF Settles, r

(* Another list is read from its first page.                               *)
LEMMA ReadsOn ==
    ASSUME NEW r, NEW by, DOMAIN r = QueryFields, r.ask \in Question, r.pc = "walking", r.truncated = FALSE,
           r.page = r.ask.start, r.got = << >>, r.cursor = None,
           Routed(r), AskedBy(r, by), KeptSoFar(r)
    PROVE  Settles(r, by)
  <1>1. Unique(r.got) /\ ToSet(r.got) \subseteq ToSet(Rows(r))
    BY DEF Unique, IsInjective, ToSet
  <1>2. r.page \in Nat \ {0}
    BY DEF Question
  <1>3. ReadSoFar(r)
    BY <1>1, <1>2 DEF ReadSoFar
  <1> QED BY <1>3, CreatorKept DEF Walking, Settles

(* A query that walked compared pages is complete when it answers.         *)
LEMMA AnswerComplete ==
    ASSUME NEW q, NEW by, Walked(q, by), q.reads \in OneRead => q.ask.single, NEW rows, NEW all
    PROVE  /\ CompleteAnswer(Answer(q, rows, all)) /\ CreatorHolds(Answer(q, rows, all))
           /\ Answer(q, rows, all).pc = "answered" /\ DOMAIN Answer(q, rows, all) = QueryFields
  <1> DEFINE a == Answer(q, rows, all)
  <1>1. /\ DOMAIN q = QueryFields /\ Routed(q) /\ AskedBy(q, by) /\ KeptSoFar(q)
    BY DEF Walked
  <1>2. SameAsk(q, a) /\ a.got = q.got /\ a.truncated = q.truncated /\ a.pc = "answered" /\ DOMAIN a = QueryFields
    BY <1>1, AnswerIs
  <1> HIDE DEF a
  <1>3. KeptSoFar(a) /\ (q.reads \in Compared \cup {"videos"} => Rows(a) = Rows(q))
    BY <1>1, <1>2, SameWay
  <1>4. a.ask = q.ask /\ a.reads = q.reads
    BY <1>2 DEF SameAsk
  <1>5. ASSUME q.ask.start = 1, ~q.ask.single, ~q.truncated, q.ask.walk \in {"pages", "library"} \/ q.reads = "creators"
        PROVE  ToSet(a.got) = ToSet(Rows(a)) /\ IsInjective(a.got)
    <2>1. q.reads \in Compared
      BY <1>1, <1>5 DEF Routed, Compared
    <2>2. Unique(q.got) /\ ToSet(q.got) = ToSet(Rows(q))
      BY <1>5, <2>1 DEF Walked
    <2> QED BY <1>2, <1>3, <2>1, <2>2 DEF Unique
  <1> QED BY <1>2, <1>3, <1>4, <1>5, CreatorKept DEF CompleteAnswer, a

(* Who asked for nothing that is cut.                                      *)
Uncut == {None, "plan", "account"}

(* An answer that is no report settles a query if the tool tells the       *)
(* truth.                                                                  *)
LEMMA PlainAnswer ==
    ASSUME NEW q, NEW by, Walked(q, by), q.reads \notin Reports, q.reads \in OneRead => q.ask.single, NEW rows, NEW all,
           ToolTells(Answer(q, rows, all), by)
    PROVE  Settles(Answer(q, rows, all), by)
  <1> DEFINE a == Answer(q, rows, all)
  <1>1. a.pc = "answered" /\ DOMAIN a = QueryFields /\ CompleteAnswer(a) /\ CreatorHolds(a)
    BY AnswerComplete
  <1>2. a.reads = q.reads
    BY AnswerIs DEF Walked, SameAsk
  <1> HIDE DEF a
  <1>3. TrueReport(a)
    BY <1>2 DEF TrueReport
  <1> QED BY <1>1, <1>3 DEF Settles, a

(* An answer to a command, or to a tool that cuts nothing.                 *)
LEMMA UncutAnswer ==
    ASSUME NEW q, NEW by, Walked(q, by), q.reads \notin Reports, q.reads \in OneRead => q.ask.single, NEW rows, NEW all,
           by \in Uncut
    PROVE  Settles(Answer(q, rows, all), by)
  <1>1. ToolTells(Answer(q, rows, all), by)
    BY DEF ToolTells, Uncut
  <1> QED BY <1>1, PlainAnswer

(* A list of products or plans that is shown as read, up to a cut.         *)
LEMMA ListAnswer ==
    ASSUME Listed, NEW q, NEW by, Walked(q, by), q.reads \in {"products", "plans"},
           NEW shown, shown = IF q.reads = "plans" THEN Cut(q.got) ELSE q.got
    PROVE  Settles(Answer(q, shown, q.got), by)
  <1> DEFINE a == Answer(q, shown, q.got)
  <1>1. DOMAIN q = QueryFields /\ Routed(q) /\ AskedBy(q, by) /\ ~q.truncated
    BY DEF Walked
  <1>2. /\ a.ask = q.ask /\ a.reads = q.reads /\ a.page = q.page /\ a.pages = q.pages
        /\ a.answer.rows = shown /\ a.answer.all = q.got
    BY <1>1, AnswerIs DEF SameAsk
  <1> HIDE DEF a
  <1>3. /\ Unique(q.got) /\ ToSet(q.got) \subseteq ToSet(Rows(q))
        /\ q.ask.start = 1 /\ ~q.ask.single => ToSet(q.got) = ToSet(Rows(q))
    BY <1>1 DEF Walked, Compared, Paged
  <1>4. /\ Unique(Cut(q.got)) /\ ToSet(Cut(q.got)) \subseteq ToSet(q.got)
        /\ Len(Cut(q.got)) < Len(q.got) <=> ToSet(Cut(q.got)) # ToSet(q.got)
    BY <1>3, CutIs
  <1>5. q.ask.start = 1 /\ ~q.ask.single /\ (by \notin Uncut => by = q.reads)
    BY <1>1 DEF Routed, FromTheFirst, AskedBy, Uncut
  <1>6. /\ q.reads = "products" => Rows(q) = Where("main", q.ask.ids)
        /\ q.reads = "plans" => Rows(q) = Where("main", WithStatus(q.ask.status))
    BY WalkedRows DEF WalkedList, WalkedPart, Compared, Paged
  <1>7. ToolTells(a, by)
    <2> SUFFICES ASSUME by \notin Uncut, q.ask.start = 1
                 PROVE  by \notin OnePage /\ Tells(ToSet(ShownBy(a, by)), WantedBy(a, by), MoreBy(a, by))
      BY <1>2 DEF ToolTells, Uncut
    <2>1. CASE by = "products" /\ q.reads = "products"
      <3>1. ShownBy(a, by) = Cut(q.got) /\ WantedBy(a, by) = ToSet(q.got) /\ (MoreBy(a, by) <=> Len(Cut(q.got)) < Len(q.got))
        BY <1>2, <1>3, <1>5, <1>6, <2>1 DEF ShownBy, WantedBy, MoreBy
      <3> QED BY <1>4, <2>1, <3>1 DEF Tells, OnePage
    <2>2. CASE by = "plans" /\ q.reads = "plans"
      <3>1. ShownBy(a, by) = Cut(q.got) /\ WantedBy(a, by) = ToSet(q.got) /\ (MoreBy(a, by) <=> Len(Cut(q.got)) < Len(q.got))
        BY <1>2, <1>3, <1>5, <1>6, <2>2 DEF ShownBy, WantedBy, MoreBy
      <3> QED BY <1>4, <2>2, <3>1 DEF Tells, OnePage
    <2> QED BY <1>5, <2>1, <2>2
  <1> QED BY <1>7, PlainAnswer DEF a, Reports, OneRead

(* Of a page of a creator's videos those that can be used, of a page of    *)
(* the library those with the file name asked for.                         *)
LEMMA FilteredAnswer ==
    ASSUME Listed, NEW q, NEW by, Walked(q, by), q.reads \in {"library", "authorizations", "homepage"}
    PROVE  Settles(Candidates(q), by) /\ Settles(WithFilename(q), by)
  <1> DEFINE fit == Only(q.got, WithStatus(q.ask.status))
             a == Answer(q, fit, fit)
  <1>1. DOMAIN q = QueryFields /\ Routed(q) /\ AskedBy(q, by) /\ ~q.truncated
    BY DEF Walked
  <1>2. /\ a.ask = q.ask /\ a.reads = q.reads /\ a.page = q.page /\ a.pages = q.pages
        /\ a.answer.rows = fit /\ a.answer.all = fit
    <2> HIDE DEF fit
    <2> QED BY <1>1, AnswerIs DEF SameAsk
  <1> HIDE DEF a
  <1>3. /\ Unique(q.got) /\ ToSet(q.got) \subseteq ToSet(Rows(q))
        /\ q.ask.start = 1 /\ q.ask.single => (ToSet(q.got) # ToSet(Rows(q)) <=> q.page - 1 < q.pages)
    BY <1>1 DEF Walked, Compared, Paged, Library
  <1>4. ToSet(fit) = ToSet(q.got) \cap WithStatus(q.ask.status)
    BY <1>3, OnlyIs DEF Unique
  <1>5. by \notin Uncut => /\ q.ask.single
                           /\ \/ by = "creator materials" /\ q.reads # "library" /\ q.ask.ids = Ids
                              \/ by = "videos" /\ q.reads = "library"
    BY <1>1 DEF AskedBy, Uncut
  <1>6. by \notin Uncut /\ by = "creator materials" => ToSet(Rows(q)) = ToSet(server.main)
    <2>1. ToSet(Rows(q)) = ToSet(server[WalkedList(q)]) \cap WalkedPart(q)
      BY RowsAre DEF Compared, Paged, Library
    <2>2. by \notin Uncut /\ by = "creator materials" => WalkedList(q) = "main" /\ WalkedPart(q) = Ids
      BY <1>5 DEF WalkedList, WalkedPart
    <2>3. ToSet(server.main) \subseteq Ids
      BY DEF Listed, Unique, ToSet
    <2> QED BY <2>1, <2>2, <2>3
  <1>9. by \notin Uncut /\ by = "videos" => ToSet(Rows(q)) = ToSet(Where("main", q.ask.ids))
    BY <1>5, WalkedRows DEF WalkedList, WalkedPart, Compared, Paged, Library
  <1>10. Rows(a) = Rows(q) /\ a.got = q.got
    <2>1. SameAsk(q, a) /\ a.got = q.got
      <3> HIDE DEF fit
      <3> QED BY <1>1, AnswerIs DEF a
    <2> QED BY <1>1, <2>1, SameWay DEF Walked, Compared, Paged, Library
  <1>7. ToolTells(a, by)
    <2> SUFFICES ASSUME by \notin Uncut, q.ask.start = 1
                 PROVE  /\ by \in OnePage /\ ToSet(ShownBy(a, by)) \subseteq WantedBy(a, by)
                        /\ ~MoreBy(a, by) => ToSet(ShownBy(a, by)) = WantedBy(a, by)
                        /\ MoreBy(a, by) => ToSet(q.got) # ToSet(Rows(q))
      BY <1>2, <1>10 DEF ToolTells, Uncut
    <2>1. /\ ShownBy(a, by) = fit /\ (MoreBy(a, by) <=> q.page - 1 < q.pages)
          /\ WantedBy(a, by) = ToSet(Rows(q)) \cap WithStatus(q.ask.status)
      BY <1>2, <1>5, <1>6, <1>9 DEF ShownBy, WantedBy, MoreBy
    <2>2. by \in OnePage
      BY <1>5 DEF OnePage
    <2> HIDE DEF fit
    <2> QED BY <1>3, <1>4, <1>5, <2>1, <2>2
  <1> HIDE DEF fit
  <1>8. Settles(a, by)
    BY <1>7, PlainAnswer DEF a, Reports, OneRead
  <1> QED BY <1>8 DEF a, fit, Candidates, WithFilename

(* Plans ranked by what they spent and cut.                                *)
LEMMA RankedCut ==
    ASSUME NEW all, Unique(all), fact \in Attributes, NEW rows, rows = Cut(BySpend(all))
    PROVE  /\ ToSet(rows) \subseteq ToSet(all) /\ (Top = 0 => ToSet(rows) = ToSet(all))
           /\ Len(rows) < Len(all) <=> ToSet(rows) # ToSet(all)
           /\ \A i \in ToSet(rows), j \in ToSet(all) \ ToSet(rows) : fact[i].spend >= fact[j].spend
  <1> DEFINE ranked == BySpend(all)
  <1>1. /\ Unique(ranked) /\ ToSet(ranked) = ToSet(all) /\ Len(ranked) = Len(all)
        /\ \A j, k \in DOMAIN ranked : j < k => fact[ranked[j]].spend >= fact[ranked[k]].spend
    BY BySpendIs
  <1> HIDE DEF ranked
  <1>2. /\ ToSet(rows) \subseteq ToSet(ranked)
        /\ Len(rows) < Len(ranked) <=> ToSet(rows) # ToSet(ranked)
        /\ Top = 0 => rows = ranked
        /\ \A k \in DOMAIN ranked :
              ranked[k] \notin ToSet(rows) => \A j \in DOMAIN rows : j < k /\ j \in DOMAIN ranked /\ rows[j] = ranked[j]
    BY <1>1, CutIs DEF ranked
  <1>3. ASSUME NEW i \in ToSet(rows), NEW j \in ToSet(all) \ ToSet(rows)
        PROVE  fact[i].spend >= fact[j].spend
    <2>1. PICK m \in DOMAIN rows : i = rows[m]
      BY DEF ToSet
    <2>2. PICK k \in DOMAIN ranked : j = ranked[k]
      BY <1>1 DEF ToSet
    <2>3. m < k /\ m \in DOMAIN ranked /\ rows[m] = ranked[m]
      BY <1>2, <2>2
    <2> QED BY <1>1, <2>1, <2>2, <2>3
  <1> QED BY <1>1, <1>2, <1>3

(* A report of plans that covers those asked for and shows the best.       *)
LEMMA PlansAnswer ==
    ASSUME NEW q, NEW by, Walked(q, by), q.reads \in {"plan metrics", "plan metadata", "plan report"}, NEW rows, NEW all,
           ToSet(all) = ToSet(server.main) \cap WithStatus(q.ask.status),
           ToSet(rows) \subseteq ToSet(all), Top = 0 => ToSet(rows) = ToSet(all),
           Len(rows) < Len(all) <=> ToSet(rows) # ToSet(all),
           \A i \in ToSet(rows), j \in ToSet(all) \ ToSet(rows) : fact[i].spend >= fact[j].spend
    PROVE  Settles(Answer(q, rows, all), by)
  <1> DEFINE a == Answer(q, rows, all)
  <1>1. DOMAIN q = QueryFields /\ AskedBy(q, by)
    BY DEF Walked
  <1>2. a.ask = q.ask /\ a.reads = q.reads /\ a.answer.rows = rows /\ a.answer.all = all
    BY <1>1, Fields DEF Answer
  <1>3. a.pc = "answered" /\ DOMAIN a = QueryFields /\ CompleteAnswer(a) /\ CreatorHolds(a)
    BY AnswerComplete DEF OneRead
  <1> HIDE DEF a
  <1>4. TrueReport(a)
    BY <1>2 DEF TrueReport
  <1>5. by \notin Uncut => by \in {"plan report", "project report"}
    BY <1>1 DEF AskedBy, Uncut
  <1>6. ToolTells(a, by)
    <2> SUFFICES ASSUME by \notin Uncut
                 PROVE  by \notin OnePage /\ Tells(ToSet(ShownBy(a, by)), WantedBy(a, by), MoreBy(a, by))
      BY DEF ToolTells, Uncut
    <2>1. /\ ShownBy(a, by) = rows /\ WantedBy(a, by) = ToSet(all) /\ (MoreBy(a, by) <=> Len(rows) < Len(all))
      BY <1>2, <1>5 DEF ShownBy, WantedBy, MoreBy
    <2> QED BY <1>5, <2>1 DEF Tells, OnePage
  <1> QED BY <1>3, <1>4, <1>6 DEF Settles, a

(* The materials of the units asked for, and those with data among them.   *)
LEMMA MaterialsAnswer ==
    ASSUME NEW q, NEW by, Walked(q, by), q.reads \in {"promotions", "material report"}, NEW rows, NEW all,
           q.ask.start = 1 /\ ~q.ask.single
              => /\ Unique(rows) /\ ToSet(rows) = ToSet(server.side) \cap q.ask.ids \cap WithStatus(q.ask.status)
                 /\ ToSet(all) = ToSet(rows) \cap ToSet(server.main)
    PROVE  Settles(Answer(q, rows, all), by)
  <1> DEFINE a == Answer(q, rows, all)
  <1>1. DOMAIN q = QueryFields /\ AskedBy(q, by)
    BY DEF Walked
  <1>2. a.ask = q.ask /\ a.reads = q.reads /\ a.answer.rows = rows /\ a.answer.all = all
    BY <1>1, Fields DEF Answer
  <1>3. a.pc = "answered" /\ DOMAIN a = QueryFields /\ CompleteAnswer(a) /\ CreatorHolds(a)
    BY AnswerComplete DEF OneRead
  <1> HIDE DEF a
  <1>4. TrueReport(a)
    BY <1>2 DEF TrueReport
  <1>5. by \notin Uncut => by = "material report" /\ q.ask.start = 1 /\ ~q.ask.single
    BY <1>1 DEF AskedBy, Uncut
  <1>6. ToolTells(a, by)
    <2> SUFFICES ASSUME by \notin Uncut
                 PROVE  by \notin OnePage /\ Tells(ToSet(ShownBy(a, by)), WantedBy(a, by), MoreBy(a, by))
      BY DEF ToolTells, Uncut
    <2>1. /\ ShownBy(a, by) = Cut(rows) /\ (MoreBy(a, by) <=> Len(Cut(rows)) < Len(rows))
          /\ WantedBy(a, by) = ToSet(server.side) \cap q.ask.ids \cap WithStatus(q.ask.status)
      BY <1>2, <1>5 DEF ShownBy, WantedBy, MoreBy
    <2>2. /\ ToSet(Cut(rows)) \subseteq ToSet(rows)
          /\ Len(Cut(rows)) < Len(rows) <=> ToSet(Cut(rows)) # ToSet(rows)
      BY <1>5, CutIs
    <2> QED BY <1>5, <2>1, <2>2 DEF Tells, OnePage
  <1> QED BY <1>3, <1>4, <1>6 DEF Settles, a

(* The empty list.                                                         *)
LEMMA NoRows == Unique(<< >>) /\ ToSet(<< >>) = {} /\ Len(<< >>) = 0 /\ ~(Len(<< >>) < Len(<< >>))
  BY DEF Unique, IsInjective, ToSet

(* The lists are about the ids.                                            *)
LEMMA MainIds == ASSUME Listed PROVE ToSet(server.main) \subseteq Ids /\ ToSet(server.side) \subseteq Ids
  BY DEF Listed, Unique, ToSet

(* A report of plans reads metrics, then the metadata, and joins them.     *)
LEMMA PlanReportGoesOn ==
    ASSUME Listed, fact \in Attributes, NEW q, NEW by, Walked(q, by), q.reads \in {"plan schema", "plan metrics", "plan metadata"}
    PROVE  Settles(Finish(q), by)
  <1>1. /\ DOMAIN q = QueryFields /\ q.ask \in Question /\ Routed(q) /\ AskedBy(q, by) /\ KeptSoFar(q)
        /\ q.truncated = FALSE /\ q.creator = None
    BY DEF Walked, KeptSoFar
  <1>2. q.ask.start = 1 /\ ~q.ask.single /\ q.ask.walk = "pages"
    BY <1>1 DEF Routed, FromTheFirst, Paged, OneRead
  <1>3. ASSUME NEW source \in {"plan metrics", "plan metadata"}, NEW kept,
               source = "plan metadata" => Unique(kept) /\ ToSet(kept) = ToSet(server.main)
        PROVE  Settles(Read(q, source, kept), by)
    <2> DEFINE r == Read(q, source, kept)
    <2>1. /\ DOMAIN r = QueryFields /\ r.ask = q.ask /\ r.pc = "walking" /\ r.truncated = q.truncated
          /\ r.page = q.ask.start /\ r.got = << >> /\ r.cursor = None
          /\ r.reads = source /\ r.kept = kept /\ r.creator = q.creator
      BY <1>1, Fields DEF Read
    <2> HIDE DEF r
    <2>2. Routed(r)
      BY <1>1, <1>2, <2>1 DEF Routed, FromTheFirst, Paged, OneRead, Library
    <2>3. AskedBy(r, by)
      BY <1>1, <2>1 DEF AskedBy
    <2>4. KeptSoFar(r)
      BY <1>1, <1>3, <2>1 DEF KeptSoFar
    <2> QED BY <1>1, <2>1, <2>2, <2>3, <2>4, ReadsOn DEF r
  <1>4. CASE q.reads = "plan schema"
    <2>1. Finish(q) = Read(q, "plan metrics", << >>)
      BY <1>4 DEF Finish
    <2> QED BY <1>3, <2>1
  <1>5. q.reads # "plan schema" => Unique(q.got) /\ ToSet(q.got) = ToSet(Rows(q)) /\ ToSet(Rows(q)) = ToSet(server[WalkedList(q)])
    <2> SUFFICES ASSUME q.reads # "plan schema"
                 PROVE  Unique(q.got) /\ ToSet(q.got) = ToSet(Rows(q)) /\ ToSet(Rows(q)) = ToSet(server[WalkedList(q)])
      OBVIOUS
    <2>1. q.reads \in Compared
      BY DEF Compared, Paged
    <2>2. WalkedPart(q) = Ids /\ WalkedList(q) \in {"main", "side"}
      BY DEF WalkedPart, WalkedList
    <2>3. ToSet(Rows(q)) = ToSet(server[WalkedList(q)]) \cap Ids
      BY <2>1, <2>2, RowsAre
    <2> QED BY <1>1, <1>2, <2>1, <2>2, <2>3, MainIds DEF Walked
  <1>6. CASE q.reads = "plan metrics"
    <2>1. Finish(q) = IF q.got = << >> THEN Answer(q, << >>, << >>) ELSE Read(q, "plan metadata", q.got)
      BY <1>6 DEF Finish
    <2>2. Unique(q.got) /\ ToSet(q.got) = ToSet(server.main)
      BY <1>5, <1>6 DEF WalkedList
    <2>3. CASE q.got = << >>
      <3>1. ToSet(server.main) = {}
        BY <2>2, <2>3, NoRows
      <3> DEFINE none == << >>
      <3>3. ToSet(none) = {} /\ ~(Len(none) < Len(none))
        BY NoRows
      <3> HIDE DEF none
      <3>4. Settles(Answer(q, none, none), by)
        BY <1>6, <3>1, <3>3, PlansAnswer
      <3>2. Settles(Answer(q, << >>, << >>), by)
        BY <3>4 DEF none
      <3> QED BY <2>1, <2>3, <3>2
    <2>4. CASE q.got # << >>
      BY <1>3, <2>1, <2>2, <2>4
    <2> QED BY <2>3, <2>4
  <1>7. CASE q.reads = "plan metadata"
    <2>1. Finish(q) = JoinPlans(q)
      BY <1>7 DEF Finish
    <2> DEFINE all == Joined(q)
               rows == Cut(BySpend(all))
    <2>2. Unique(q.kept) /\ ToSet(q.kept) = ToSet(server.main)
      BY <1>1, <1>7 DEF KeptSoFar
    <2>3. Unique(all) /\ ToSet(all) = ToSet(server.main) \cap WithStatus(q.ask.status)
      BY <2>2, OnlyIs DEF Joined, Unique
    <2> HIDE DEF all
    <2>4. /\ ToSet(rows) \subseteq ToSet(all) /\ (Top = 0 => ToSet(rows) = ToSet(all))
          /\ Len(rows) < Len(all) <=> ToSet(rows) # ToSet(all)
          /\ \A i \in ToSet(rows), j \in ToSet(all) \ ToSet(rows) : fact[i].spend >= fact[j].spend
      BY <2>3, RankedCut
    <2> HIDE DEF rows
    <2>5. Settles(Answer(q, rows, all), by)
      BY <1>7, <2>3, <2>4, PlansAnswer
    <2>6. Settles(Refuse(q), by)
      BY <1>1, Refused
    <2>7. JoinPlans(q) = Refuse(q) \/ JoinPlans(q) = Answer(q, rows, all)
      BY DEF JoinPlans, rows, all
    <2> QED BY <2>1, <2>5, <2>6, <2>7
  <1> QED BY <1>4, <1>6, <1>7

(* A report of projects reads their schema, then the report.               *)
LEMMA ProjectReportGoesOn ==
    ASSUME Listed, fact \in Attributes, NEW q, NEW by, Walked(q, by), q.reads \in {"project schema", "plan report"}
    PROVE  Settles(Finish(q), by)
  <1>1. /\ DOMAIN q = QueryFields /\ q.ask \in Question /\ Routed(q) /\ AskedBy(q, by) /\ KeptSoFar(q)
        /\ q.truncated = FALSE /\ q.creator = None
    BY DEF Walked, KeptSoFar
  <1>2. q.ask.start = 1 /\ ~q.ask.single /\ q.ask.walk = "pages" /\ q.ask.status = "ALL"
    BY <1>1 DEF Routed, FromTheFirst, Paged, OneRead
  <1>3. CASE q.reads = "project schema"
    <2> DEFINE r == Read(q, "plan report", << >>)
    <2>1. /\ DOMAIN r = QueryFields /\ r.ask = q.ask /\ r.pc = "walking" /\ r.truncated = q.truncated
          /\ r.page = q.ask.start /\ r.got = << >> /\ r.cursor = None
          /\ r.reads = "plan report" /\ r.creator = q.creator
      BY <1>1, Fields DEF Read
    <2>2. Finish(q) = r
      BY <1>3 DEF Finish
    <2> HIDE DEF r
    <2>3. Routed(r)
      BY <1>1, <1>2, <2>1 DEF Routed, FromTheFirst, Paged, OneRead, Library
    <2>4. AskedBy(r, by)
      BY <1>1, <1>3, <2>1 DEF AskedBy
    <2>5. KeptSoFar(r)
      BY <1>1, <2>1 DEF KeptSoFar
    <2> QED BY <1>1, <2>1, <2>2, <2>3, <2>4, <2>5, ReadsOn
  <1>4. CASE q.reads = "plan report"
    <2>1. Finish(q) = RankPlans(q)
      BY <1>4 DEF Finish
    <2> DEFINE rows == Cut(BySpend(q.got))
    <2>2. q.reads \in Compared
      BY <1>4 DEF Compared, Paged
    <2>3. Unique(q.got) /\ ToSet(q.got) = ToSet(Rows(q)) /\ ToSet(Rows(q)) = ToSet(server.main)
      <3>1. WalkedPart(q) = Ids /\ WalkedList(q) = "main"
        BY <1>4 DEF WalkedPart, WalkedList
      <3>2. ToSet(Rows(q)) = ToSet(server.main) \cap Ids
        BY <2>2, <3>1, RowsAre
      <3> QED BY <1>1, <1>2, <2>2, <3>2, MainIds DEF Walked
    <2>4. ToSet(q.got) = ToSet(server.main) \cap WithStatus(q.ask.status)
      <3>1. WithStatus("ALL") = Ids
        BY DEF WithStatus
      <3> QED BY <1>2, <2>3, <3>1, MainIds
    <2>5. /\ ToSet(rows) \subseteq ToSet(q.got) /\ (Top = 0 => ToSet(rows) = ToSet(q.got))
          /\ Len(rows) < Len(q.got) <=> ToSet(rows) # ToSet(q.got)
          /\ \A i \in ToSet(rows), j \in ToSet(q.got) \ ToSet(rows) : fact[i].spend >= fact[j].spend
      BY <2>3, RankedCut
    <2> HIDE DEF rows
    <2>6. Settles(Answer(q, rows, q.got), by)
      BY <1>4, <2>4, <2>5, PlansAnswer
    <2> QED BY <2>1, <2>6 DEF RankPlans, rows
  <1> QED BY <1>3, <1>4

(* The materials of the units asked for, then the rows of their report.    *)
LEMMA MaterialsGoOn ==
    ASSUME Listed, NEW q, NEW by, Walked(q, by), q.reads \in {"promotions", "material report"}
    PROVE  Settles(Finish(q), by)
  <1>1. /\ DOMAIN q = QueryFields /\ q.ask \in Question /\ Routed(q) /\ AskedBy(q, by) /\ KeptSoFar(q)
        /\ q.truncated = FALSE /\ q.creator = None
    BY DEF Walked, KeptSoFar
  <1>2. q.ask.walk = "pages"
    BY <1>1 DEF Routed, Paged
  <1>3. Unique(q.got) /\ (q.ask.start = 1 /\ ~q.ask.single => ToSet(q.got) = ToSet(Rows(q)))
    BY <1>1 DEF Walked, Compared, Paged
  <1>4. ToSet(Rows(q)) = ToSet(server[WalkedList(q)]) \cap WalkedPart(q)
    BY RowsAre DEF Compared, Paged
  <1>5. CASE q.reads = "promotions"
    <2> DEFINE materials == Only(q.got, WithStatus(q.ask.status))
               r == Read(q, "material report", materials)
    <2>1. Finish(q) = IF materials = << >> THEN Answer(q, << >>, << >>) ELSE r
      BY <1>5 DEF Finish, ExtractMaterials
    <2>2. WalkedList(q) = "side" /\ WalkedPart(q) = q.ask.ids
      BY <1>5 DEF WalkedList, WalkedPart
    <2>3. Unique(materials) /\ ToSet(materials) = ToSet(q.got) \cap WithStatus(q.ask.status)
      BY <1>3, OnlyIs DEF Unique
    <2> HIDE DEF materials
    <2>4. q.ask.start = 1 /\ ~q.ask.single
             => ToSet(materials) = ToSet(server.side) \cap q.ask.ids \cap WithStatus(q.ask.status)
      BY <1>3, <1>4, <2>2, <2>3
    <2>5. CASE materials = << >>
      <3> DEFINE none == << >>
      <3>1. Unique(none) /\ ToSet(none) = {}
        BY NoRows
      <3>2. ToSet(materials) = {}
        BY <2>5, NoRows
      <3> HIDE DEF none
      <3>3. Settles(Answer(q, none, none), by)
        BY <1>5, <2>4, <3>1, <3>2, MaterialsAnswer
      <3> QED BY <2>1, <2>5, <3>3 DEF none
    <2>6. CASE materials # << >>
      <3>1. /\ DOMAIN r = QueryFields /\ r.ask = q.ask /\ r.pc = "walking" /\ r.truncated = q.truncated
            /\ r.page = q.ask.start /\ r.got = << >> /\ r.cursor = None
            /\ r.reads = "material report" /\ r.kept = materials /\ r.creator = q.creator
        BY <1>1, Fields DEF Read
      <3> HIDE DEF r
      <3>2. Routed(r)
        BY <1>1, <1>2, <3>1 DEF Routed, FromTheFirst, Paged, OneRead, Library
      <3>3. AskedBy(r, by)
        BY <1>1, <1>5, <3>1 DEF AskedBy
      <3>4. KeptSoFar(r)
        BY <1>1, <2>3, <2>4, <3>1 DEF KeptSoFar
      <3> QED BY <1>1, <2>1, <2>6, <3>1, <3>2, <3>3, <3>4, ReadsOn
    <2> QED BY <2>5, <2>6
  <1>6. CASE q.reads = "material report"
    <2> DEFINE all == Only(q.kept, ToSet(q.got))
    <2>1. Finish(q) = Answer(q, q.kept, all)
      BY <1>6 DEF Finish, JoinMaterials
    <2>2. WalkedList(q) = "main" /\ WalkedPart(q) = ToSet(q.kept)
      BY <1>6 DEF WalkedList, WalkedPart
    <2>3. /\ Unique(q.kept)
          /\ q.ask.start = 1 /\ ~q.ask.single
                => ToSet(q.kept) = ToSet(server.side) \cap q.ask.ids \cap WithStatus(q.ask.status)
      BY <1>1, <1>6 DEF KeptSoFar
    <2>4. ToSet(all) = ToSet(q.kept) \cap ToSet(q.got)
      BY <2>3, OnlyIs DEF Unique
    <2> HIDE DEF all
    <2>5. q.ask.start = 1 /\ ~q.ask.single => ToSet(all) = ToSet(q.kept) \cap ToSet(server.main)
      BY <1>3, <1>4, <2>2, <2>4
    <2>6. Settles(Answer(q, q.kept, all), by)
      BY <1>6, <2>3, <2>5, MaterialsAnswer
    <2> QED BY <2>1, <2>6
  <1> QED BY <1>5, <1>6

(* One match is a match.                                                   *)
LEMMA OneIsSome == ASSUME NEW S, Cardinality(S) = 1 PROVE S # {}
  <1>1. Cardinality({}) = 0
    BY FS_EmptySet
  <1> QED BY <1>1

(* A creator who is the only match, then the videos of each product.       *)
LEMMA CreatorGoesOn ==
    ASSUME Listed, NEW q, NEW by, Walked(q, by), q.ask.name = "creator videos" /\ q.reads = "creators"
    PROVE  Settles(Finish(q), by)
  <1>1. /\ DOMAIN q = QueryFields /\ q.ask \in Question /\ Routed(q) /\ AskedBy(q, by) /\ KeptSoFar(q)
        /\ q.truncated \in BOOLEAN
    BY DEF Walked
  <1>2. q.ask.start = 1 /\ ~q.ask.single /\ q.ask.walk = "creators"
    BY <1>1 DEF Routed, FromTheFirst
  <1>3. q.reads \in Compared
    BY DEF Compared
  <1> DEFINE matches == ResolveAuthorizedCreator(q)
             r == [Read(q, "videos", << >>) EXCEPT !.creator = CHOOSE i \in matches : TRUE, !.product = Products[1]]
  <1>4. Finish(q) = ResolveCreator(q)
    BY DEF Finish
  <1>5. ResolveCreator(q) = IF Cardinality(matches) # 1 THEN Refuse(q) ELSE r
    BY DEF ResolveCreator
  <1>6. CASE Cardinality(matches) # 1
    BY <1>1, <1>4, <1>5, <1>6, Refused
  <1>7. CASE Cardinality(matches) = 1
    <2>1. /\ DOMAIN r = QueryFields /\ r.ask = q.ask /\ r.pc = "walking" /\ r.truncated = q.truncated
          /\ r.page = q.ask.start /\ r.got = << >> /\ r.cursor = None
          /\ r.reads = "videos" /\ r.kept = << >> /\ r.creator = CHOOSE i \in matches : TRUE
      <3> HIDE DEF matches
      <3> QED BY <1>1, Fields DEF Read
    <2> HIDE DEF r
    <2>2. q.truncated = FALSE
      <3>1. q.truncated => matches = {}
        BY DEF ResolveAuthorizedCreator
      <3> HIDE DEF matches
      <3>2. matches # {}
        BY <1>7, OneIsSome
      <3> QED BY <1>1, <3>1, <3>2
    <2>3. matches = {i \in ToSet(q.got) : fact[i].wanted}
      BY <2>2 DEF ResolveAuthorizedCreator
    <2>4. Unique(q.got) /\ ToSet(q.got) = ToSet(Rows(q))
      BY <1>2, <1>3, <2>2 DEF Walked
    <2>5. ToSet(Rows(q)) = ToSet(server.side) \cap (q.ask.ids \cup {i \in Ids : fact[i].wanted})
      <3>1. WalkedList(q) = "side" /\ WalkedPart(q) = q.ask.ids \cup {i \in Ids : fact[i].wanted}
        BY DEF WalkedList, WalkedPart
      <3> QED BY <1>3, <3>1, RowsAre
    <2>6. matches = {i \in ToSet(server.side) : fact[i].wanted}
      BY <2>3, <2>4, <2>5, MainIds
    <2>7. IsFiniteSet(matches)
      BY <2>3, <2>4, UniqueLen, FS_Subset
    <2> HIDE DEF matches
    <2>8. matches = {r.creator}
      <3>1. PICK i : matches = {i}
        BY <1>7, <2>7, FS_Singleton
      <3> QED BY <2>1, <3>1
    <2>9. Routed(r)
      BY <1>1, <1>2, <2>1 DEF Routed, FromTheFirst, Paged, OneRead, Library
    <2>10. AskedBy(r, by)
      BY <1>1, <2>1 DEF AskedBy
    <2>11. KeptSoFar(r)
      BY <2>1, <2>6, <2>8, NoRows DEF KeptSoFar
    <2>12. Settles(r, by)
      BY <1>1, <2>1, <2>2, <2>9, <2>10, <2>11, ReadsOn
    <2> QED BY <1>4, <1>5, <1>7, <2>12
  <1> QED BY <1>6, <1>7

(* The videos of one product, merged with those of the other.              *)
LEMMA VideosGoOn ==
    ASSUME Listed, NEW q, NEW by, Walked(q, by), q.reads = "videos"
    PROVE  Settles(Finish(q), by)
  <1>1. /\ DOMAIN q = QueryFields /\ q.ask \in Question /\ Routed(q) /\ AskedBy(q, by) /\ KeptSoFar(q)
        /\ q.truncated = FALSE /\ Unique(q.got)
    BY DEF Walked
  <1>2. Unique(q.kept) /\ {i \in ToSet(server.side) : fact[i].wanted} = {q.creator}
    BY <1>1 DEF KeptSoFar
  <1> DEFINE merged == Unseen(q.kept, q.got)
             r == [Read(q, "videos", merged) EXCEPT !.product = Products[2]]
             a == Answer(q, merged, merged)
  <1>3. Unique(merged)
    BY <1>1, <1>2, UnseenIs
  <1> HIDE DEF merged
  <1>4. Finish(q) = IF q.product = Products[1] THEN r ELSE a
    BY DEF Finish, MergeVideos, merged
  <1>5. Settles(r, by)
    <2>1. /\ DOMAIN r = QueryFields /\ r.ask = q.ask /\ r.pc = "walking" /\ r.truncated = q.truncated
          /\ r.page = q.ask.start /\ r.got = << >> /\ r.cursor = None
          /\ r.reads = "videos" /\ r.kept = merged /\ r.creator = q.creator
      BY <1>1, Fields DEF Read
    <2> HIDE DEF r
    <2>2. Routed(r)
      BY <1>1, <2>1 DEF Routed
    <2>3. AskedBy(r, by)
      BY <1>1, <2>1 DEF AskedBy
    <2>4. KeptSoFar(r)
      BY <1>2, <1>3, <2>1 DEF KeptSoFar
    <2> QED BY <1>1, <2>1, <2>2, <2>3, <2>4, ReadsOn
  <1>6. Settles(a, by)
    <2>1. by \in Uncut
      BY <1>1 DEF AskedBy, Uncut
    <2> QED BY <2>1, UncutAnswer DEF Reports, OneRead
  <1> QED BY <1>4, <1>5, <1>6

(* A plan, with its materials for the tool that wants them.                *)
LEMMA PlanGoesOn ==
    ASSUME Listed, NEW q, NEW by, Walked(q, by), q.reads = "plan"
    PROVE  Settles(Finish(q), by)
  <1>1. /\ DOMAIN q = QueryFields /\ q.ask \in Question /\ Routed(q) /\ AskedBy(q, by) /\ KeptSoFar(q)
        /\ q.truncated = FALSE /\ q.creator = None /\ q.ask.walk = "pages"
    BY DEF Walked, KeptSoFar, Routed, OneRead
  <1>2. by \in Uncut
    BY <1>1 DEF AskedBy, Uncut
  <1> DEFINE r == Read(q, "plan materials", << >>)
             a == Answer(q, q.got, q.got)
  <1>3. Finish(q) = IF Len(q.got) # 1 THEN Refuse(q) ELSE IF q.ask.name = "plan with materials" THEN r ELSE a
    BY DEF Finish, ShownPlan
  <1>4. Settles(Refuse(q), by)
    BY <1>1, Refused
  <1>5. CASE q.ask.name # "plan with materials"
    <2>1. q.ask.single
      BY <1>1, <1>5 DEF Routed
    <2>2. Settles(a, by)
      BY <1>2, <2>1, UncutAnswer DEF Reports
    <2> QED BY <1>3, <1>4, <1>5, <2>2
  <1>6. CASE q.ask.name = "plan with materials"
    <2>1. q.ask.start = 1 /\ ~q.ask.single
      BY <1>1, <1>6 DEF Routed
    <2>2. /\ DOMAIN r = QueryFields /\ r.ask = q.ask /\ r.pc = "walking" /\ r.truncated = q.truncated
          /\ r.page = q.ask.start /\ r.got = << >> /\ r.cursor = None
          /\ r.reads = "plan materials" /\ r.kept = << >> /\ r.creator = q.creator
      BY <1>1, Fields DEF Read
    <2> HIDE DEF r
    <2>3. Routed(r)
      BY <1>1, <2>1, <2>2 DEF Routed, FromTheFirst, Paged, OneRead, Library
    <2>4. AskedBy(r, by)
      BY <1>1, <2>2 DEF AskedBy
    <2>5. KeptSoFar(r)
      BY <1>1, <2>2 DEF KeptSoFar
    <2>6. Settles(r, by)
      BY <1>1, <2>2, <2>3, <2>4, <2>5, ReadsOn
    <2> QED BY <1>3, <1>4, <1>6, <2>6
  <1> QED BY <1>5, <1>6

(* Whatever has been walked is answered, read on or refused.               *)
LEMMA FinishSettles ==
    ASSUME Listed, fact \in Attributes, NEW q, NEW by, Walked(q, by), q.pc = "walked"
    PROVE  Settles(Finish(q), by)
  <1>1. DOMAIN q = QueryFields /\ Routed(q) /\ AskedBy(q, by) /\ KeptSoFar(q)
    BY DEF Walked
  <1>2. CASE q.reads \in {"plan schema", "plan metrics", "plan metadata"}
    BY <1>2, PlanReportGoesOn
  <1>3. CASE q.reads \in {"project schema", "plan report"}
    BY <1>3, ProjectReportGoesOn
  <1>4. CASE q.reads \in {"library", "authorizations", "homepage"}
    <2>1. Finish(q) \in {Candidates(q), WithFilename(q)}
      BY <1>4 DEF Finish
    <2> QED BY <1>4, <2>1, FilteredAnswer
  <1>5. CASE q.reads = "plan"
    BY <1>5, PlanGoesOn
  <1>6. CASE q.reads \in {"promotions", "material report"}
    BY <1>6, MaterialsGoOn
  <1>7. CASE q.reads = "creators" /\ q.ask.name = "creator videos"
    BY <1>7, CreatorGoesOn
  <1>8. CASE q.reads = "videos"
    BY <1>8, VideosGoOn
  <1>9. CASE q.reads \in {"products", "plans"}
    <2> DEFINE shown == IF q.reads = "plans" THEN Cut(q.got) ELSE q.got
    <2>1. Finish(q) = Answer(q, shown, q.got)
      BY <1>9 DEF Finish
    <2> HIDE DEF shown
    <2>2. Settles(Answer(q, shown, q.got), by)
      BY <1>9, ListAnswer DEF shown
    <2> QED BY <2>1, <2>2
  <1>10. CASE /\ q.reads \notin {"plan schema", "plan metrics", "plan metadata", "project schema", "plan report",
                                  "library", "authorizations", "homepage", "plan", "promotions", "material report",
                                  "videos", "products", "plans"}
              /\ ~(q.reads = "creators" /\ q.ask.name = "creator videos")
    <2>1. by \in Uncut
      BY <1>1, <1>10 DEF AskedBy, Uncut
    <2> DEFINE a == Answer(q, q.got, q.got)
               c == Answer(q, Cut(q.got), q.got)
    <2>2. Settles(a, by) /\ Settles(c, by)
      BY <1>10, <2>1, UncutAnswer DEF Reports, OneRead
    <2>3. Settles(Refuse(q), by)
      BY <1>1, Refused
    <2>4. Finish(q) \in {a, c, Refuse(q)}
      BY <1>10 DEF Finish, ValidateSchemaTopics
    <2> QED BY <2>2, <2>3, <2>4
  <1> QED BY <1>2, <1>3, <1>4, <1>5, <1>6, <1>7, <1>8, <1>9, <1>10

(* A true page leaves a query settled.                                     *)
LEMMA ReceiveSettles ==
    ASSUME Listed, fact \in Attributes, Walking(query, tool), query.pc = "walking"
    PROVE  Settles(Settled(Walk(query, NextPage)), tool)
  <1> DEFINE w == Walk(query, NextPage)
  <1>1. GoesOn(query, w, tool)
    BY WalkGoes
  <1>2. DOMAIN query = QueryFields /\ KeptSoFar(query)
    BY DEF Walking
  <1> HIDE DEF w
  <1>3. CASE w = Refuse(query)
    <2>1. Refuse(query).pc = "refused"
      BY <1>2, Fields DEF Refuse
    <2>2. Settled(w) = Refuse(query)
      BY <1>3, <2>1 DEF Settled
    <2> QED BY <1>2, <2>2, Refused DEF w
  <1>4. CASE w.pc = "walking" /\ Walking(w, tool)
    <2>1. Settled(w) = w
      BY <1>4 DEF Settled
    <2>2. Settles(w, tool)
      BY <1>4, CreatorKept DEF Settles, Walking
    <2> QED BY <2>1, <2>2 DEF w
  <1>5. CASE w.pc = "walked" /\ Walked(w, tool)
    <2>1. Settled(w) = Finish(w)
      BY <1>5 DEF Settled
    <2>2. Settles(Finish(w), tool)
      BY <1>5, FinishSettles
    <2> QED BY <2>1, <2>2 DEF w
  <1> QED BY <1>1, <1>3, <1>4, <1>5 DEF GoesOn

-----------------------------------------------------------------------------
(* The next state: what is settled stays so while the lists are as before. *)

(* Every endpoint has what it had.                                         *)
LEMMA RowsKept ==
    ASSUME fact' = fact, server' = server
    PROVE  (Rows(query))' = Rows(query')
  BY DEF Rows, Where, WithStatus, FetchProducts, FetchPlans, FetchPlanMaterials, FetchAuthorizedCreators,
         FetchCreatorVideos, FetchMaterialPage, FetchDataPage, FetchPlanMetricPage, FetchPlanMetadataPage,
         FetchRoomDimensionPage, FetchAuthorDimensionPage, FetchReportPage, FetchPromotionPage,
         FetchLibraryVideos, FetchLibraryImages, FetchDPAProducts, FetchCreatorAuthorizations,
         FetchCreatorHomepage, FetchAdVideos, FetchAdImages, FetchCoverSuggestions, FetchAllPromotion,
         FetchUniPromotion, FetchDetail, FetchSchema, FetchSchemas, FetchProjects, FetchPromotions, FetchDPA,
         FetchEvents, FetchDeepBids, FetchGoals, FetchAdminInfo

(* What is settled by the lists of the state before is so by those of the  *)
(* next.                                                                   *)
LEMMA SettledStays ==
    ASSUME fact' = fact, server' = server, Settles(query', tool')
    PROVE  (Settles(query, tool))'
  <1>1. (Rows(query))' = Rows(query')
    BY RowsKept
  <1>2. (CreatorHolds(query))' <=> CreatorHolds(query')
    BY DEF CreatorHolds
  <1>3. (CompleteAnswer(query))' <=> CompleteAnswer(query')
    BY <1>1 DEF CompleteAnswer
  <1>4. (TrueReport(query))' <=> TrueReport(query')
    BY DEF TrueReport, WithStatus, Reports
  <1>5. (ToolTells(query, tool))' <=> ToolTells(query', tool')
    <2>1. (WantedBy(query, tool))' = WantedBy(query', tool')
      BY DEF WantedBy, Where, WithStatus
    <2> QED BY <1>1, <2>1 DEF ToolTells, Tells, ShownBy, MoreBy, OnePage
  <1>6. (Walking(query, tool))' <=> Walking(query', tool')
    <2>1. (ReadSoFar(query))' <=> ReadSoFar(query')
      BY <1>1 DEF ReadSoFar
    <2>2. (KeptSoFar(query))' <=> KeptSoFar(query')
      BY DEF KeptSoFar, WithStatus
    <2> QED BY <2>1, <2>2 DEF Walking, Routed, AskedBy
  <1> QED BY <1>2, <1>3, <1>4, <1>5, <1>6 DEF Settles

(* A query with its lists: unasked or settled.                             *)
QuerySettled ==
    /\ fact \in Attributes /\ Listed
    /\ \/ query = Unasked /\ tool = None
       \/ query.pc # "idle" /\ Settles(query, tool)

(* The inductive invariant: nothing is said once a row came or went, or a  *)
(* page was wrong.                                                         *)
QueryInv == steady => QuerySettled

(* What is settled has the properties.                                     *)
LEMMA SettledHolds == QuerySettled => CompleteOrRefused /\ AnswersAreTrue
  <1> SUFFICES ASSUME QuerySettled PROVE CompleteOrRefused /\ AnswersAreTrue
    OBVIOUS
  <1>1. CASE query = Unasked /\ tool = None
    <2>1. query.pc = "idle" /\ query.creator = None
      BY <1>1 DEF Unasked
    <2> QED BY <2>1 DEF CompleteOrRefused, AnswersAreTrue, ReportIsTrue, CreatorIsTheOnlyMatch,
                        ToolsTellWhatIsLeftOut, Answered
  <1>2. CASE query.pc # "idle" /\ Settles(query, tool)
    <2>2. query.pc = "answered" => CompleteAnswer(query) /\ TrueReport(query) /\ ToolTells(query, tool)
      BY <1>2 DEF Settles
    <2>3. CompleteOrRefused
      BY <2>2 DEF CompleteOrRefused, CompleteAnswer, Answered
    <2>4. ReportIsTrue
      BY <2>2 DEF ReportIsTrue, TrueReport, Reports, Answered
    <2>5. CreatorIsTheOnlyMatch
      BY <1>2 DEF Settles, CreatorHolds, CreatorIsTheOnlyMatch
    <2>6. ToolsTellWhatIsLeftOut
      <3> SUFFICES ASSUME tool \notin {None, "plan", "account"}, query.pc = "answered", query.ask.start = 1
                   PROVE  /\ ToSet(Items) \subseteq AskedFor
                          /\ ~SaysMore => ToSet(Items) = AskedFor
                          /\ SaysMore => IF tool \in OnePage THEN ToSet(query.got) # ToSet(Rows(query))
                                         ELSE ToSet(Items) # AskedFor
        BY DEF ToolsTellWhatIsLeftOut, OnePage
      <3>1. Items = ShownBy(query, tool) /\ (SaysMore <=> MoreBy(query, tool))
        BY DEF Items, ShownBy, SaysMore, MoreBy, HasMore, Truncated, TotalCount
      <3>2. AskedFor = WantedBy(query, tool)
        BY DEF AskedFor, WantedBy, FetchProducts, FetchPlans, FetchLibraryVideos
      <3> QED BY <2>2, <3>1, <3>2 DEF ToolTells, Tells, OnePage
    <2> QED BY <2>3, <2>4, <2>5, <2>6 DEF AnswersAreTrue
  <1> QED BY <1>1, <1>2 DEF QuerySettled

(* A step that leaves the lists as they are and the query settled.         *)
LEMMA Settling ==
    ASSUME QuerySettled, fact' = fact, server' = server, Settles(query', tool'), query'.pc # "idle"
    PROVE  QuerySettled'
  <1>1. (Settles(query, tool))'
    BY SettledStays
  <1>2. (fact \in Attributes)'
    BY DEF QuerySettled
  <1>3. Listed'
    BY DEF QuerySettled, Listed
  <1> QED BY <1>1, <1>2, <1>3 DEF QuerySettled

(* A refused query is settled.                                             *)
LEMMA Refusing ==
    ASSUME QuerySettled, fact' = fact, server' = server, tool' = tool, query' = Refuse(query), query.pc # "idle",
           DOMAIN query = QueryFields
    PROVE  QuerySettled'
  <1>1. DOMAIN query' = QueryFields /\ query'.pc = "refused" /\ query'.creator = query.creator /\ query'.kept = query.kept
    BY Fields DEF Refuse
  <1>2. CreatorHolds(query)
    BY DEF QuerySettled, Settles, Unasked
  <1>3. Settles(query', tool')
    BY <1>1, <1>2 DEF Settles, CreatorHolds
  <1> QED BY <1>1, <1>3, Settling

(* A step that changes nothing of a query.                                 *)
LEMMA Standing ==
    ASSUME QuerySettled, UNCHANGED <<fact, server, query, tool>>
    PROVE  QuerySettled'
  <1>1. CASE query = Unasked /\ tool = None
    BY <1>1 DEF QuerySettled, Listed
  <1>2. CASE query.pc # "idle" /\ Settles(query, tool)
    BY <1>2, Settling
  <1> QED BY <1>1, <1>2 DEF QuerySettled

-----------------------------------------------------------------------------
(* Two rows of a list change places.                                       *)

(* The list afterwards: the same rows, none twice.                         *)
LEMMA Swapped ==
    ASSUME NEW rows, Unique(rows), NEW k \in 1..(Len(rows) - 1), NEW swapped,
           swapped = [[rows EXCEPT ![k] = rows[k + 1]] EXCEPT ![k + 1] = rows[k]]
    PROVE  Unique(swapped) /\ ToSet(swapped) = ToSet(rows)
  <1>1. rows \in Seq(Ids) /\ Len(rows) \in Nat /\ DOMAIN rows = 1..Len(rows) /\ \A i \in 1..Len(rows) : rows[i] \in Ids
    BY DEF Unique
  <1>2. k \in DOMAIN rows /\ k + 1 \in DOMAIN rows /\ k # k + 1
    BY <1>1
  <1>3. /\ DOMAIN swapped = DOMAIN rows /\ swapped[k] = rows[k + 1] /\ swapped[k + 1] = rows[k]
        /\ \A i \in DOMAIN rows \ {k, k + 1} : swapped[i] = rows[i]
    BY <1>1, <1>2
  <1>4. swapped \in Seq(Ids)
    <2>1. swapped \in [1..Len(rows) -> Ids]
      BY <1>1, <1>2
    <2> QED BY <1>1, <2>1
  <1>5. IsInjective(swapped)
    <2>1. \A i, j \in DOMAIN rows : rows[i] = rows[j] => i = j
      BY DEF Unique, IsInjective
    <2> HIDE DEF Unique
    <2>2. ASSUME NEW i \in DOMAIN rows, NEW j \in DOMAIN rows, swapped[i] = swapped[j] PROVE i = j
      <3> DEFINE to(n) == IF n = k THEN k + 1 ELSE IF n = k + 1 THEN k ELSE n
      <3>1. \A n \in DOMAIN rows : swapped[n] = rows[to(n)] /\ to(n) \in DOMAIN rows
        BY <1>2, <1>3
      <3>2. to(i) = to(j)
        <4> HIDE DEF to
        <4> QED BY <2>1, <2>2, <3>1
      <3> QED BY <1>2, <3>2
    <2> QED BY <1>3, <2>2 DEF IsInjective
  <1>6. ToSet(swapped) = ToSet(rows)
    <2>1. \A i \in DOMAIN rows : \E j \in DOMAIN rows : swapped[i] = rows[j]
      BY <1>2, <1>3
    <2>2. \A j \in DOMAIN rows : \E i \in DOMAIN rows : swapped[i] = rows[j]
      BY <1>2, <1>3
    <2>3. ToSet(swapped) = {swapped[i] : i \in DOMAIN rows} /\ ToSet(rows) = {rows[j] : j \in DOMAIN rows}
      BY <1>3 DEF ToSet
    <2>4. ASSUME NEW x \in ToSet(swapped) PROVE x \in ToSet(rows)
      <3>1. PICK i \in DOMAIN rows : x = swapped[i]
        BY <2>3
      <3>2. PICK j \in DOMAIN rows : x = rows[j]
        BY <2>1, <3>1
      <3> QED BY <2>3, <3>2
    <2>5. ToSet(rows) \subseteq ToSet(swapped)
      BY <2>2, <2>3
    <2> QED BY <2>4, <2>5
  <1> QED BY <1>4, <1>5, <1>6 DEF Unique

(* WalkedRows of the query, in a form that can be stated of the next       *)
(* state.                                                                  *)
LEMMA RowsOfQuery ==
    query.reads \in Compared \cup {"videos"} => Rows(query) = Where(WalkedList(query), WalkedPart(query))
  BY WalkedRows

(* A walk goes on although rows of its list changed their places.          *)
LEMMA Swapping ==
    ASSUME QuerySettled, NEW list \in {"main", "side"}, NEW k \in 1..(Len(server[list]) - 1), query.pc = "walking",
           server' = [server EXCEPT ![list][k] = server[list][k + 1], ![list][k + 1] = server[list][k]],
           UNCHANGED <<fact, query, tool>>
    PROVE  QuerySettled'
  <1>1. Listed /\ Unique(server[list]) /\ fact \in Attributes /\ Walking(query, tool) /\ CreatorHolds(query)
    BY DEF QuerySettled, Listed, Settles, Unasked
  <1> DEFINE swapped == [[server[list] EXCEPT ![k] = server[list][k + 1]] EXCEPT ![k + 1] = server[list][k]]
  <1>2. server' = [server EXCEPT ![list] = swapped]
    BY <1>1 DEF Listed
  <1>3. Unique(swapped) /\ ToSet(swapped) = ToSet(server[list])
    BY <1>1, Swapped
  <1> HIDE DEF swapped
  <1>4. /\ DOMAIN server' = {"main", "side"} /\ Unique(server'.main) /\ Unique(server'.side)
        /\ ToSet(server'.main) = ToSet(server.main) /\ ToSet(server'.side) = ToSet(server.side)
    BY <1>1, <1>2, <1>3 DEF Listed
  <1>5. Listed'
    BY <1>4 DEF Listed, Unique, IsInjective
  <1>6. query.reads \in Compared \cup {"videos"} => (ToSet(Rows(query)))' = ToSet(Rows(query))
    <2> SUFFICES ASSUME query.reads \in Compared \cup {"videos"} PROVE (ToSet(Rows(query)))' = ToSet(Rows(query))
      OBVIOUS
    <2>1. (query.reads \in Compared \cup {"videos"} => Rows(query) = Where(WalkedList(query), WalkedPart(query)))'
      BY RowsOfQuery, PTL
    <2>2. (Rows(query))' = Only(server'[WalkedList(query)], WalkedPart(query))
      BY <2>1 DEF Where, WalkedPart, WalkedList, WithStatus
    <2>3. WalkedList(query) \in {"main", "side"}
      BY DEF WalkedList
    <2>4. ToSet(Only(server'[WalkedList(query)], WalkedPart(query))) = ToSet(server'[WalkedList(query)]) \cap WalkedPart(query)
      <3>1. server'[WalkedList(query)] \in Seq(Ids)
        BY <1>4, <2>3 DEF Unique
      <3> QED BY <3>1, OnlyIs
    <2>5. ToSet(Rows(query)) = ToSet(server[WalkedList(query)]) \cap WalkedPart(query)
      BY <1>1, RowsAre
    <2>6. ToSet(server'[WalkedList(query)]) = ToSet(server[WalkedList(query)])
      BY <1>4, <2>3
    <2>7. (ToSet(Rows(query)))' = ToSet(Only(server'[WalkedList(query)], WalkedPart(query)))
      BY <2>2 DEF ToSet
    <2> QED BY <2>4, <2>5, <2>6, <2>7
  <1>7. (ReadSoFar(query))'
    <2>1. ReadSoFar(query)
      BY <1>1 DEF Walking
    <2> QED BY <1>6, <2>1 DEF ReadSoFar, Compared
  <1>8. (KeptSoFar(query))'
    <2>1. KeptSoFar(query)
      BY <1>1 DEF Walking
    <2> QED BY <1>4, <2>1 DEF KeptSoFar, WithStatus
  <1>9. (Walking(query, tool))'
    <2>1. (Routed(query))'
      <3>1. Routed(query)
        BY <1>1 DEF Walking
      <3> QED BY <3>1 DEF Routed
    <2>3. (AskedBy(query, tool))'
      <3>1. AskedBy(query, tool)
        BY <1>1 DEF Walking
      <3> QED BY <3>1 DEF AskedBy
    <2>2. (DOMAIN query = QueryFields /\ ~query.truncated /\ query.ask \in Question)'
      BY <1>1 DEF Walking
    <2> QED BY <1>7, <1>8, <2>1, <2>2, <2>3 DEF Walking
  <1>10. (CreatorHolds(query))'
    BY <1>1, <1>4 DEF CreatorHolds
  <1> QED BY <1>1, <1>5, <1>9, <1>10 DEF QuerySettled, Settles

-----------------------------------------------------------------------------
(* Asking: what a command or a tool asks for is walked.                    *)

(* How each list a query may begin with is walked, and by which tool.      *)
Begins(title, source, walk, ids, status, start, single, by) ==
    /\ source \notin {"plan metadata", "material report", "videos"}
    /\ \A r : r.ask.name = title /\ r.ask.walk = walk /\ r.ask.ids = ids /\ r.ask.status = status
              /\ r.ask.start = start /\ r.ask.single = single /\ r.reads = source
              => Routed(r) /\ AskedBy(r, by)

(* A query that has been asked is settled.                                 *)
LEMMA Asking ==
    ASSUME QuerySettled, NEW title \in QueryNames, NEW source,
           NEW walk \in {"one", "covers", "pages", "library", "unified", "cities", "creators"},
           NEW ids \in SUBSET Ids, NEW status \in Statuses \cup {"ALL"}, NEW start \in 1..2, NEW single \in BOOLEAN,
           Ask(title, source, walk, ids, status, start, single),
           Begins(title, source, walk, ids, status, start, single, tool')
    PROVE  QuerySettled'
  <1>1. query = Unasked /\ fact' = fact /\ server' = server
    BY DEF QuerySettled, Ask
  <1>2. PICK cap \in IF single THEN {1} ELSE MaxPages :
           query' = Read([Unasked EXCEPT !.ask = [name |-> title, walk |-> walk, ids |-> ids, status |-> status,
                                                  start |-> start, single |-> single, cap |-> cap]], source, << >>)
    BY <1>1 DEF Ask
  <1> DEFINE ask == [name |-> title, walk |-> walk, ids |-> ids, status |-> status,
                     start |-> start, single |-> single, cap |-> cap]
             asked == [Unasked EXCEPT !.ask = ask]
  <1>3. ask \in Question
    BY QueriesAssumption DEF Question
  <1>4. /\ ask.name = title /\ ask.walk = walk /\ ask.ids = ids /\ ask.status = status
        /\ ask.start = start /\ ask.single = single
    OBVIOUS
  <1> HIDE DEF ask
  <1>5. DOMAIN asked = QueryFields /\ asked.ask = ask /\ asked.truncated = FALSE /\ asked.creator = None
    BY DEF QueryFields, Unasked
  <1>6. query' = Read(asked, source, << >>)
    BY <1>2 DEF ask
  <1> HIDE DEF asked
  <1>7. /\ DOMAIN query' = QueryFields /\ query'.ask = ask /\ query'.pc = "walking" /\ query'.truncated = FALSE
        /\ query'.page = ask.start /\ query'.got = << >> /\ query'.cursor = None
        /\ query'.reads = source /\ query'.kept = << >> /\ query'.creator = None
    BY <1>5, <1>6, Fields DEF Read
  <1>8. Routed(query') /\ AskedBy(query', tool')
    BY <1>4, <1>7 DEF Begins
  <1>9. KeptSoFar(query')
    BY <1>7 DEF KeptSoFar, Begins
  <1>10. Settles(query', tool')
    BY <1>3, <1>7, <1>8, <1>9, ReadsOn
  <1> QED BY <1>1, <1>7, <1>10, Settling

(* What a tool is for.                                                     *)
Serves(by, source, ids, start, single) ==
    \A r : r.reads = source /\ r.ask.ids = ids /\ r.ask.start = start /\ r.ask.single = single => AskedBy(r, by)

(* Queries whose walks compare nothing.                                    *)
LEMMA LooseBegins ==
    ASSUME NEW title, NEW source, NEW walk, NEW ids, NEW status, NEW start, NEW single, NEW by,
           source \notin Compared \cup OneRead \cup {"videos"}, walk \in {"one", "covers", "unified", "cities"},
           single => walk = "one", Serves(by, source, ids, start, single)
    PROVE  Begins(title, source, walk, ids, status, start, single, by)
  <1> SUFFICES ASSUME NEW r, r.ask.name = title, r.ask.walk = walk, r.ask.ids = ids, r.ask.status = status,
                      r.ask.start = start, r.ask.single = single, r.reads = source
               PROVE  Routed(r) /\ AskedBy(r, by)
    BY DEF Begins, Compared, Paged
  <1>1. Routed(r)
    BY DEF Routed, Compared, Paged, Library, OneRead, FromTheFirst
  <1> QED BY <1>1 DEF Serves

(* Queries whose walks compare keys, or show a plan or a schema first.     *)
LEMMA ComparedBegins ==
    ASSUME NEW title, NEW source, NEW walk, NEW ids, NEW status, NEW start, NEW single, NEW by,
           source \in (Compared \cup OneRead) \ {"plan metadata", "material report"},
           walk = (IF source \in Library THEN "library" ELSE IF source = "creators" THEN "creators" ELSE "pages"),
           source \in FromTheFirst => start = 1 /\ ~single,
           source = "plan" => start = 1 /\ (single <=> title # "plan with materials"),
           source \in {"project schema", "plan report"} => status = "ALL", Serves(by, source, ids, start, single)
    PROVE  Begins(title, source, walk, ids, status, start, single, by)
  <1> SUFFICES ASSUME NEW r, r.ask.name = title, r.ask.walk = walk, r.ask.ids = ids, r.ask.status = status,
                      r.ask.start = start, r.ask.single = single, r.reads = source
               PROVE  Routed(r) /\ AskedBy(r, by)
    BY DEF Begins, Compared, Paged, Library, OneRead
  <1>1. CASE source \in Paged \cup OneRead
    <2>1. walk = "pages" /\ source \notin Library \cup {"creators", "videos"}
      BY <1>1 DEF Paged, Library, OneRead
    <2>2. Routed(r)
      BY <1>1, <2>1 DEF Routed
    <2> QED BY <2>2 DEF Serves
  <1>2. CASE source \in Library
    <2>1. walk = "library" /\ source \notin Paged \cup OneRead \cup {"creators", "videos", "plan", "project schema", "plan report"}
      BY <1>2 DEF Paged, Library, OneRead
    <2>2. Routed(r)
      BY <1>2, <2>1 DEF Routed
    <2> QED BY <2>2 DEF Serves
  <1>3. CASE source = "creators"
    <2>1. Routed(r)
      BY <1>3 DEF Routed, Paged, Library, OneRead, FromTheFirst
    <2> QED BY <2>1 DEF Serves
  <1> QED BY <1>1, <1>2, <1>3 DEF Compared

(* A request as it can be made, and the two ways to walk what it reads.     *)
Requested(title, ids, status, start, single) ==
    /\ title \in QueryNames /\ ids \in SUBSET Ids /\ status \in Statuses \cup {"ALL"}
    /\ start \in 1..2 /\ single \in BOOLEAN
LooseWay(source, walk, single) ==
    /\ source \notin Compared \cup OneRead \cup {"videos"} /\ walk \in {"one", "covers", "unified", "cities"}
    /\ single => walk = "one"
ComparedWay(title, source, walk, status, start, single) ==
    /\ source \in (Compared \cup OneRead) \ {"plan metadata", "material report"}
    /\ walk = (IF source \in Library THEN "library" ELSE IF source = "creators" THEN "creators" ELSE "pages")
    /\ source \in FromTheFirst => start = 1 /\ ~single
    /\ source = "plan" => start = 1 /\ (single <=> title # "plan with materials")
    /\ source \in {"project schema", "plan report"} => status = "ALL"

(* The same of a request in the state it is made in.                       *)
LEMMA LooseAsks ==
    ASSUME QuerySettled, NEW title, NEW source, NEW walk, NEW ids, NEW status, NEW start, NEW single,
           Ask(title, source, walk, ids, status, start, single), Requested(title, ids, status, start, single),
           LooseWay(source, walk, single), Serves(tool', source, ids, start, single)
    PROVE  QuerySettled'
  <1>1. Begins(title, source, walk, ids, status, start, single, tool')
    BY LooseBegins DEF LooseWay
  <1>2. walk \in {"one", "covers", "pages", "library", "unified", "cities", "creators"}
    BY DEF LooseWay
  <1>3. title \in QueryNames /\ ids \in SUBSET Ids /\ status \in Statuses \cup {"ALL"} /\ start \in 1..2 /\ single \in BOOLEAN
    BY DEF Requested, QueryNames
  <1> QED BY <1>1, <1>2, <1>3, Asking

(* The same of a request in the state it is made in.                       *)
LEMMA ComparedAsks ==
    ASSUME QuerySettled, NEW title, NEW source, NEW walk, NEW ids, NEW status, NEW start, NEW single,
           Ask(title, source, walk, ids, status, start, single), Requested(title, ids, status, start, single),
           ComparedWay(title, source, walk, status, start, single), Serves(tool', source, ids, start, single)
    PROVE  QuerySettled'
  <1>1. Begins(title, source, walk, ids, status, start, single, tool')
    BY ComparedBegins DEF ComparedWay
  <1>2. walk \in {"one", "covers", "pages", "library", "unified", "cities", "creators"}
    BY DEF ComparedWay
  <1>3. title \in QueryNames /\ ids \in SUBSET Ids /\ status \in Statuses \cup {"ALL"} /\ start \in 1..2 /\ single \in BOOLEAN
    BY DEF Requested, QueryNames
  <1> QED BY <1>1, <1>2, <1>3, Asking

(* How the commands walk.                                                  *)
LEMMA LooseWays ==
    /\ \A source \in {"projects", "project promotions", "dpa", "events", "deep bids", "goals", "unified schema",
                     "overall", "unified", "schema", "data", "ad videos", "ad images"} : LooseWay(source, "one", TRUE)
    /\ LooseWay("regions", "cities", FALSE) /\ LooseWay("covers", "covers", FALSE)
    /\ \A source \in {"data", "room", "author"} : LooseWay(source, "unified", FALSE)
  BY DEF LooseWay, Compared, Paged, Library, OneRead

LEMMA ComparedWays ==
    ASSUME NEW title, NEW status, NEW start, NEW single
    PROVE  /\ \A source \in {"products", "plans", "plan materials", "materials", "plan schema"} :
                 ComparedWay(title, source, "pages", status, 1, FALSE)
           /\ ComparedWay(title, "creators", "creators", status, 1, FALSE)
           /\ ComparedWay("plan", "plan", "pages", status, 1, TRUE)
           /\ ComparedWay("plan with materials", "plan", "pages", status, 1, FALSE)
           /\ ComparedWay(title, "project schema", "pages", "ALL", 1, FALSE)
           /\ \A source \in {"promotions", "authorizations", "homepage"} : ComparedWay(title, source, "pages", status, start, single)
           /\ \A source \in {"library", "images", "dpa products"} : ComparedWay(title, source, "library", status, start, single)
  BY DEF ComparedWay, Compared, Paged, Library, OneRead, FromTheFirst

(* What is asked for is among the ids.                                     *)
LEMMA Selected ==
    /\ \A ids \in Selections : ids \in SUBSET Ids
    /\ Ids \in SUBSET Ids /\ \A i \in Ids : {i} \in SUBSET Ids
  BY QueriesAssumption

(* A command is no tool.                                                   *)
LEMMA CommandServes ==
    ASSUME QuerySettled, tool' = tool, query.pc = "idle", NEW source, NEW ids, NEW start, NEW single
    PROVE  Serves(tool', source, ids, start, single)
  BY DEF QuerySettled, Serves, AskedBy

(* Requests of commands.                                                   *)
LEMMA LooseCommand ==
    ASSUME QuerySettled, tool' = tool, NEW title, NEW source, NEW walk, NEW ids, NEW status, NEW start, NEW single,
           Ask(title, source, walk, ids, status, start, single), Requested(title, ids, status, start, single),
           LooseWay(source, walk, single)
    PROVE  QuerySettled'
  <1>1. Serves(tool', source, ids, start, single)
    BY CommandServes DEF Ask
  <1> QED BY <1>1, LooseAsks

LEMMA ComparedCommand ==
    ASSUME QuerySettled, tool' = tool, NEW title, NEW source, NEW walk, NEW ids, NEW status, NEW start, NEW single,
           Ask(title, source, walk, ids, status, start, single), Requested(title, ids, status, start, single),
           ComparedWay(title, source, walk, status, start, single)
    PROVE  QuerySettled'
  <1>1. Serves(tool', source, ids, start, single)
    BY CommandServes DEF Ask
  <1> QED BY <1>1, ComparedAsks

(* Every command.                                                          *)
LEMMA StartSettles == ASSUME QuerySettled, Start, tool' = tool PROVE QuerySettled'
  <1> USE DEF Statuses
  <1>1. CASE QueryProjects
    <2>1. PICK ids \in Selections, status \in Statuses, start \in 1..2 : Ask("projects", "projects", "one", ids, status, start, TRUE)
      BY <1>1 DEF QueryProjects, Diagnostic
    <2>2. Requested("projects", ids, status, start, TRUE)
      BY Selected DEF Requested, QueryNames
    <2>3. LooseWay("projects", "one", TRUE)
      BY LooseWays
    <2> QED BY <2>1, <2>2, <2>3, LooseCommand
  <1>2. CASE QueryPromotions
    <2>1. PICK ids \in Selections, status \in Statuses, start \in 1..2 : Ask("project promotions", "project promotions", "one", ids, status, start, TRUE)
      BY <1>2 DEF QueryPromotions, Diagnostic
    <2>2. Requested("project promotions", ids, status, start, TRUE)
      BY Selected DEF Requested, QueryNames
    <2>3. LooseWay("project promotions", "one", TRUE)
      BY LooseWays
    <2> QED BY <2>1, <2>2, <2>3, LooseCommand
  <1>3. CASE QueryDPA
    <2>1. PICK ids \in Selections, status \in Statuses, start \in 1..2 : Ask("dpa", "dpa", "one", ids, status, start, TRUE)
      BY <1>3 DEF QueryDPA, Diagnostic
    <2>2. Requested("dpa", ids, status, start, TRUE)
      BY Selected DEF Requested, QueryNames
    <2>3. LooseWay("dpa", "one", TRUE)
      BY LooseWays
    <2> QED BY <2>1, <2>2, <2>3, LooseCommand
  <1>4. CASE QueryEvents
    <2>1. PICK ids \in Selections, status \in Statuses, start \in 1..2 : Ask("events", "events", "one", ids, status, start, TRUE)
      BY <1>4 DEF QueryEvents, Diagnostic
    <2>2. Requested("events", ids, status, start, TRUE)
      BY Selected DEF Requested, QueryNames
    <2>3. LooseWay("events", "one", TRUE)
      BY LooseWays
    <2> QED BY <2>1, <2>2, <2>3, LooseCommand
  <1>5. CASE QueryDeepBids
    <2>1. PICK ids \in Selections, status \in Statuses, start \in 1..2 : Ask("deep bids", "deep bids", "one", ids, status, start, TRUE)
      BY <1>5 DEF QueryDeepBids, Diagnostic
    <2>2. Requested("deep bids", ids, status, start, TRUE)
      BY Selected DEF Requested, QueryNames
    <2>3. LooseWay("deep bids", "one", TRUE)
      BY LooseWays
    <2> QED BY <2>1, <2>2, <2>3, LooseCommand
  <1>6. CASE QueryGoals
    <2>1. PICK ids \in Selections, status \in Statuses, start \in 1..2 : Ask("goals", "goals", "one", ids, status, start, TRUE)
      BY <1>6 DEF QueryGoals, Diagnostic
    <2>2. Requested("goals", ids, status, start, TRUE)
      BY Selected DEF Requested, QueryNames
    <2>3. LooseWay("goals", "one", TRUE)
      BY LooseWays
    <2> QED BY <2>1, <2>2, <2>3, LooseCommand
  <1>7. CASE ResolveCities
    <2>1. PICK ids \in Selections : Ask("regions", "regions", "cities", ids, "ALL", 1, FALSE)
      BY <1>7 DEF ResolveCities, AskAll
    <2>2. Requested("regions", ids, "ALL", 1, FALSE)
      BY Selected DEF Requested, QueryNames
    <2>3. LooseWay("regions", "cities", FALSE)
      BY LooseWays
    <2> QED BY <2>1, <2>2, <2>3, LooseCommand
  <1>8. CASE QueryProducts
    <2>1. PICK ids \in Selections : Ask("products", "products", "pages", ids, "ALL", 1, FALSE)
      BY <1>8 DEF QueryProducts, AskAll
    <2>2. Requested("products", ids, "ALL", 1, FALSE)
      BY Selected DEF Requested, QueryNames
    <2>3. ComparedWay("products", "products", "pages", "ALL", 1, FALSE)
      BY ComparedWays
    <2> QED BY <2>1, <2>2, <2>3, ComparedCommand
  <1>9. CASE ListPlans
    <2>1. PICK status \in Statuses \cup {"ALL"} : Ask("plans", "plans", "pages", Ids, status, 1, FALSE)
      BY <1>9 DEF ListPlans
    <2>2. Requested("plans", Ids, status, 1, FALSE)
      BY Selected DEF Requested, QueryNames
    <2>3. ComparedWay("plans", "plans", "pages", status, 1, FALSE)
      BY ComparedWays
    <2> QED BY <2>1, <2>2, <2>3, ComparedCommand
  <1>10. CASE ListPlanMaterials
    <2>1. Ask("plan materials", "plan materials", "pages", Ids, "ALL", 1, FALSE)
      BY <1>10 DEF ListPlanMaterials, AskAll
    <2>2. Requested("plan materials", Ids, "ALL", 1, FALSE)
      BY Selected DEF Requested, QueryNames
    <2>3. ComparedWay("plan materials", "plan materials", "pages", "ALL", 1, FALSE)
      BY ComparedWays
    <2> QED BY <2>1, <2>2, <2>3, ComparedCommand
  <1>11. CASE ShowPlan
    <2>1. PICK i \in Ids : Ask("plan", "plan", "pages", {i}, "ALL", 1, TRUE)
      BY <1>11 DEF ShowPlan
    <2>2. Requested("plan", {i}, "ALL", 1, TRUE)
      BY Selected DEF Requested, QueryNames
    <2>3. ComparedWay("plan", "plan", "pages", "ALL", 1, TRUE)
      BY ComparedWays
    <2> QED BY <2>1, <2>2, <2>3, ComparedCommand
  <1>12. CASE ListAuthorizedCreators
    <2>1. PICK ids \in Selections : Ask("creators", "creators", "creators", ids, "ALL", 1, FALSE)
      BY <1>12 DEF ListAuthorizedCreators, AskAll
    <2>2. Requested("creators", ids, "ALL", 1, FALSE)
      BY Selected DEF Requested, QueryNames
    <2>3. ComparedWay("creators", "creators", "creators", "ALL", 1, FALSE)
      BY ComparedWays
    <2> QED BY <2>1, <2>2, <2>3, ComparedCommand
  <1>13. CASE QueryCreatorVideos
    <2>1. PICK ids \in Selections : Ask("creator videos", "creators", "creators", ids, "ALL", 1, FALSE)
      BY <1>13 DEF QueryCreatorVideos
    <2>2. Requested("creator videos", ids, "ALL", 1, FALSE)
      BY Selected DEF Requested, QueryNames
    <2>3. ComparedWay("creator videos", "creators", "creators", "ALL", 1, FALSE)
      BY ComparedWays
    <2> QED BY <2>1, <2>2, <2>3, ComparedCommand
  <1>14. CASE MaterialReport
    <2>1. PICK ids \in Selections : Ask("materials", "materials", "pages", ids, "ALL", 1, FALSE)
      BY <1>14 DEF MaterialReport, AskAll
    <2>2. Requested("materials", ids, "ALL", 1, FALSE)
      BY Selected DEF Requested, QueryNames
    <2>3. ComparedWay("materials", "materials", "pages", "ALL", 1, FALSE)
      BY ComparedWays
    <2> QED BY <2>1, <2>2, <2>3, ComparedCommand
  <1>15. CASE PlanReport
    <2>1. PICK status \in Statuses \cup {"ALL"} : Ask("qianchuan plans", "plan schema", "pages", Ids, status, 1, FALSE)
      BY <1>15 DEF PlanReport
    <2>2. Requested("qianchuan plans", Ids, status, 1, FALSE)
      BY Selected DEF Requested, QueryNames
    <2>3. ComparedWay("qianchuan plans", "plan schema", "pages", status, 1, FALSE)
      BY ComparedWays
    <2> QED BY <2>1, <2>2, <2>3, ComparedCommand
  <1>16. CASE QianchuanCustom
    <2>1. PICK ids \in Selections : Ask("data", "data", "unified", ids, "ALL", 1, FALSE)
      BY <1>16 DEF QianchuanCustom, AskAll
    <2>2. Requested("data", ids, "ALL", 1, FALSE)
      BY Selected DEF Requested, QueryNames
    <2>3. LooseWay("data", "unified", FALSE)
      BY LooseWays
    <2> QED BY <2>1, <2>2, <2>3, LooseCommand
  <1>17. CASE QianchuanRoom
    <2>1. PICK ids \in Selections : Ask("room", "room", "unified", ids, "ALL", 1, FALSE)
      BY <1>17 DEF QianchuanRoom, AskAll
    <2>2. Requested("room", ids, "ALL", 1, FALSE)
      BY Selected DEF Requested, QueryNames
    <2>3. LooseWay("room", "unified", FALSE)
      BY LooseWays
    <2> QED BY <2>1, <2>2, <2>3, LooseCommand
  <1>18. CASE QianchuanAuthor
    <2>1. PICK ids \in Selections : Ask("author", "author", "unified", ids, "ALL", 1, FALSE)
      BY <1>18 DEF QianchuanAuthor, AskAll
    <2>2. Requested("author", ids, "ALL", 1, FALSE)
      BY Selected DEF Requested, QueryNames
    <2>3. LooseWay("author", "unified", FALSE)
      BY LooseWays
    <2> QED BY <2>1, <2>2, <2>3, LooseCommand
  <1>19. CASE QianchuanSchema
    <2>1. PICK ids \in Selections : Ask("unified schema", "unified schema", "one", ids, "ALL", 1, TRUE)
      BY <1>19 DEF QianchuanSchema, Whole
    <2>2. Requested("unified schema", ids, "ALL", 1, TRUE)
      BY Selected DEF Requested, QueryNames
    <2>3. LooseWay("unified schema", "one", TRUE)
      BY LooseWays
    <2> QED BY <2>1, <2>2, <2>3, LooseCommand
  <1>20. CASE QianchuanAggregate
    <2>1. PICK title \in {"overall", "unified"} : Ask(title, title, "one", Ids, "ALL", 1, TRUE)
      BY <1>20 DEF QianchuanAggregate, Whole
    <2>2. Requested(title, Ids, "ALL", 1, TRUE)
      <3>1. title \in QueryNames
        BY DEF QueryNames
      <3> QED BY <3>1, Selected DEF Requested
    <2>3. LooseWay(title, "one", TRUE)
      BY LooseWays
    <2> QED BY <2>1, <2>2, <2>3, LooseCommand
  <1>21. CASE Schema
    <2>1. PICK ids \in Selections : Ask("schema", "schema", "one", ids, "ALL", 1, TRUE)
      BY <1>21 DEF Schema, Whole
    <2>2. Requested("schema", ids, "ALL", 1, TRUE)
      BY Selected DEF Requested, QueryNames
    <2>3. LooseWay("schema", "one", TRUE)
      BY LooseWays
    <2> QED BY <2>1, <2>2, <2>3, LooseCommand
  <1>22. CASE Plans
    <2>1. Ask("project plans", "project schema", "pages", Ids, "ALL", 1, FALSE)
      BY <1>22 DEF Plans
    <2>2. Requested("project plans", Ids, "ALL", 1, FALSE)
      BY Selected DEF Requested, QueryNames
    <2>3. ComparedWay("project plans", "project schema", "pages", "ALL", 1, FALSE)
      BY ComparedWays
    <2> QED BY <2>1, <2>2, <2>3, ComparedCommand
  <1>23. CASE Materials
    <2>1. PICK ids \in Selections, status \in {"on", "ALL"}, start \in 1..2, single \in BOOLEAN :
            Ask("unit materials", "promotions", "pages", ids, status, start, single)
      BY <1>23 DEF Materials
    <2>2. Requested("unit materials", ids, status, start, single)
      BY Selected DEF Requested, QueryNames
    <2>3. ComparedWay("unit materials", "promotions", "pages", status, start, single)
      BY ComparedWays
    <2> QED BY <2>1, <2>2, <2>3, ComparedCommand
  <1>24. CASE Custom
    <2>1. PICK ids \in Selections, start \in 1..2 : Ask("data", "data", "one", ids, "ALL", start, TRUE)
      BY <1>24 DEF Custom
    <2>2. Requested("data", ids, "ALL", start, TRUE)
      BY Selected DEF Requested, QueryNames
    <2>3. LooseWay("data", "one", TRUE)
      BY LooseWays
    <2> QED BY <2>1, <2>2, <2>3, LooseCommand
  <1>25. CASE AdVideos
    <2>1. PICK ids \in Selections : Ask("ad videos", "ad videos", "one", ids, "ALL", 1, TRUE)
      BY <1>25 DEF AdVideos, Whole
    <2>2. Requested("ad videos", ids, "ALL", 1, TRUE)
      BY Selected DEF Requested, QueryNames
    <2>3. LooseWay("ad videos", "one", TRUE)
      BY LooseWays
    <2> QED BY <2>1, <2>2, <2>3, LooseCommand
  <1>26. CASE AdImages
    <2>1. PICK ids \in Selections : Ask("ad images", "ad images", "one", ids, "ALL", 1, TRUE)
      BY <1>26 DEF AdImages, Whole
    <2>2. Requested("ad images", ids, "ALL", 1, TRUE)
      BY Selected DEF Requested, QueryNames
    <2>3. LooseWay("ad images", "one", TRUE)
      BY LooseWays
    <2> QED BY <2>1, <2>2, <2>3, LooseCommand
  <1>27. CASE Covers
    <2>1. PICK i \in Ids : Ask("covers", "covers", "covers", {i}, "ALL", 1, FALSE)
      BY <1>27 DEF Covers
    <2>2. Requested("covers", {i}, "ALL", 1, FALSE)
      BY Selected DEF Requested, QueryNames
    <2>3. LooseWay("covers", "covers", FALSE)
      BY LooseWays
    <2> QED BY <2>1, <2>2, <2>3, LooseCommand
  <1>28. CASE QueryVideos
    <2>1. PICK ids \in Selections, status \in {"on", "ALL"}, start \in 1..2, single \in BOOLEAN :
            Ask("library", "library", "library", ids, status, start, single)
      BY <1>28 DEF QueryVideos
    <2>2. Requested("library", ids, status, start, single)
      BY Selected DEF Requested, QueryNames
    <2>3. ComparedWay("library", "library", "library", status, start, single)
      BY ComparedWays
    <2> QED BY <2>1, <2>2, <2>3, ComparedCommand
  <1>29. CASE QueryImages
    <2>1. PICK ids \in Selections, start \in 1..2 : Ask("images", "images", "library", ids, "ALL", start, TRUE)
      BY <1>29 DEF QueryImages
    <2>2. Requested("images", ids, "ALL", start, TRUE)
      BY Selected DEF Requested, QueryNames
    <2>3. ComparedWay("images", "images", "library", "ALL", start, TRUE)
      BY ComparedWays
    <2> QED BY <2>1, <2>2, <2>3, ComparedCommand
  <1>30. CASE QueryDPAProducts
    <2>1. PICK ids \in Selections, start \in 1..2 : Ask("dpa products", "dpa products", "library", ids, "ALL", start, TRUE)
      BY <1>30 DEF QueryDPAProducts
    <2>2. Requested("dpa products", ids, "ALL", start, TRUE)
      BY Selected DEF Requested, QueryNames
    <2>3. ComparedWay("dpa products", "dpa products", "library", "ALL", start, TRUE)
      BY ComparedWays
    <2> QED BY <2>1, <2>2, <2>3, ComparedCommand
  <1>31. CASE QueryCreatorAuthorizations
    <2>1. PICK ids \in Selections, status \in {"on", "ALL"} :
            Ask("authorizations", "authorizations", "pages", ids, status, 1, FALSE)
      BY <1>31 DEF QueryCreatorAuthorizations
    <2>2. Requested("authorizations", ids, status, 1, FALSE)
      BY Selected DEF Requested, QueryNames
    <2>3. ComparedWay("authorizations", "authorizations", "pages", status, 1, FALSE)
      BY ComparedWays
    <2> QED BY <2>1, <2>2, <2>3, ComparedCommand
  <1>32. CASE QueryCreatorHomepage
    <2>1. PICK status \in {"on", "ALL"} : Ask("homepage", "homepage", "pages", Ids, status, 1, FALSE)
      BY <1>32 DEF QueryCreatorHomepage
    <2>2. Requested("homepage", Ids, status, 1, FALSE)
      BY Selected DEF Requested, QueryNames
    <2>3. ComparedWay("homepage", "homepage", "pages", status, 1, FALSE)
      BY ComparedWays
    <2> QED BY <2>1, <2>2, <2>3, ComparedCommand
  <1> QED BY <1>1, <1>2, <1>3, <1>4, <1>5, <1>6, <1>7, <1>8, <1>9, <1>10, <1>11, <1>12, <1>13, <1>14, <1>15,
         <1>16, <1>17, <1>18, <1>19, <1>20, <1>21, <1>22, <1>23, <1>24, <1>25, <1>26, <1>27, <1>28, <1>29,
         <1>30, <1>31, <1>32 DEF Start

(* Every tool.                                                             *)
LEMMA ToolServes ==
    ASSUME NEW source, NEW ids, NEW start, NEW single
    PROVE  /\ Serves("plan", source, ids, start, single) /\ Serves("account", source, ids, start, single)
           /\ Serves("products", "products", ids, start, single) /\ Serves("plans", "plans", ids, start, single)
           /\ Serves("plan report", "plan schema", ids, start, single)
           /\ Serves("project report", "project schema", ids, start, single)
           /\ Serves("videos", "library", ids, start, TRUE)
           /\ source \in {"authorizations", "homepage"} => Serves("creator materials", source, Ids, start, TRUE)
           /\ Serves("material report", "promotions", ids, 1, FALSE)
  <1>1. Serves("plan", source, ids, start, single) /\ Serves("account", source, ids, start, single)
    BY DEF Serves, AskedBy
  <1>2. Serves("products", "products", ids, start, single) /\ Serves("plans", "plans", ids, start, single)
    BY DEF Serves, AskedBy
  <1>3. /\ Serves("plan report", "plan schema", ids, start, single)
        /\ Serves("project report", "project schema", ids, start, single)
    BY DEF Serves, AskedBy
  <1>4. Serves("videos", "library", ids, start, TRUE)
    BY DEF Serves, AskedBy
  <1>5. source \in {"authorizations", "homepage"} => Serves("creator materials", source, Ids, start, TRUE)
    BY DEF Serves, AskedBy
  <1>6. Serves("material report", "promotions", ids, 1, FALSE)
    BY DEF Serves, AskedBy
  <1> QED BY <1>1, <1>2, <1>3, <1>4, <1>5, <1>6

(* A tool's query is settled.                                              *)
LEMMA ToolSettles == ASSUME QuerySettled, UseTool PROVE QuerySettled'
  <1> USE DEF Statuses
  <1>1. CASE SearchQianchuanProducts
    <2>1. PICK ids \in Selections : Ask("products", "products", "pages", ids, "ALL", 1, FALSE)
      BY <1>1 DEF SearchQianchuanProducts, QueryProducts, AskAll
    <2>2. tool' = "products"
      BY <1>1 DEF SearchQianchuanProducts, Uses
    <2>3. Requested("products", ids, "ALL", 1, FALSE)
      BY Selected DEF Requested, QueryNames
    <2>4. ComparedWay("products", "products", "pages", "ALL", 1, FALSE)
      BY ComparedWays
    <2>5. Serves(tool', "products", ids, 1, FALSE)
      BY <2>2, ToolServes
    <2> QED BY <2>1, <2>3, <2>4, <2>5, ComparedAsks
  <1>2. CASE ListQianchuanPlans
    <2>1. PICK status \in Statuses \cup {"ALL"} : Ask("plans", "plans", "pages", Ids, status, 1, FALSE)
      BY <1>2 DEF ListQianchuanPlans, ListPlans
    <2>2. tool' = "plans"
      BY <1>2 DEF ListQianchuanPlans, Uses
    <2>3. Requested("plans", Ids, status, 1, FALSE)
      BY Selected DEF Requested, QueryNames
    <2>4. ComparedWay("plans", "plans", "pages", status, 1, FALSE)
      BY ComparedWays
    <2>5. Serves(tool', "plans", Ids, 1, FALSE)
      BY <2>2, ToolServes
    <2> QED BY <2>1, <2>3, <2>4, <2>5, ComparedAsks
  <1>3. CASE GetQianchuanPlan
    <2>1. tool' = "plan"
      BY <1>3 DEF GetQianchuanPlan, Uses
    <2>2. CASE ShowPlan
      <3>1. PICK i \in Ids : Ask("plan", "plan", "pages", {i}, "ALL", 1, TRUE)
        BY <2>2 DEF ShowPlan
      <3>2. Requested("plan", {i}, "ALL", 1, TRUE)
        BY Selected DEF Requested, QueryNames
      <3>3. ComparedWay("plan", "plan", "pages", "ALL", 1, TRUE)
        BY ComparedWays
      <3>4. Serves(tool', "plan", {i}, 1, TRUE)
        BY <2>1, ToolServes
      <3> QED BY <3>1, <3>2, <3>3, <3>4, ComparedAsks
    <2>3. CASE \E i \in Ids : Ask("plan with materials", "plan", "pages", {i}, "ALL", 1, FALSE)
      <3>1. PICK i \in Ids : Ask("plan with materials", "plan", "pages", {i}, "ALL", 1, FALSE)
        BY <2>3
      <3>2. Requested("plan with materials", {i}, "ALL", 1, FALSE)
        BY Selected DEF Requested, QueryNames
      <3>3. ComparedWay("plan with materials", "plan", "pages", "ALL", 1, FALSE)
        BY ComparedWays
      <3>4. Serves(tool', "plan", {i}, 1, FALSE)
        BY <2>1, ToolServes
      <3> QED BY <3>1, <3>2, <3>3, <3>4, ComparedAsks
    <2> QED BY <1>3, <2>2, <2>3 DEF GetQianchuanPlan
  <1>4. CASE ReportQianchuanAccount
    <2>1. PICK title \in {"overall", "unified"} : Ask(title, title, "one", Ids, "ALL", 1, TRUE)
      BY <1>4 DEF ReportQianchuanAccount, QianchuanAggregate, Whole
    <2>2. tool' = "account"
      BY <1>4 DEF ReportQianchuanAccount, Uses
    <2>3. Requested(title, Ids, "ALL", 1, TRUE)
      <3>1. title \in QueryNames
        BY DEF QueryNames
      <3> QED BY <3>1, Selected DEF Requested
    <2>4. LooseWay(title, "one", TRUE)
      BY LooseWays
    <2>5. Serves(tool', title, Ids, 1, TRUE)
      BY <2>2, ToolServes
    <2> QED BY <2>1, <2>3, <2>4, <2>5, LooseAsks
  <1>5. CASE ReportQianchuanPlans
    <2>1. PICK status \in Statuses \cup {"ALL"} : Ask("qianchuan plans", "plan schema", "pages", Ids, status, 1, FALSE)
      BY <1>5 DEF ReportQianchuanPlans, PlanReport
    <2>2. tool' = "plan report"
      BY <1>5 DEF ReportQianchuanPlans, Uses
    <2>3. Requested("qianchuan plans", Ids, status, 1, FALSE)
      BY Selected DEF Requested, QueryNames
    <2>4. ComparedWay("qianchuan plans", "plan schema", "pages", status, 1, FALSE)
      BY ComparedWays
    <2>5. Serves(tool', "plan schema", Ids, 1, FALSE)
      BY <2>2, ToolServes
    <2> QED BY <2>1, <2>3, <2>4, <2>5, ComparedAsks
  <1>6. CASE SearchMarketingVideos
    <2>1. PICK ids \in Selections, status \in {"on", "ALL"}, start \in 1..2 :
             Ask("library", "library", "library", ids, status, start, TRUE)
      BY <1>6 DEF SearchMarketingVideos
    <2>2. tool' = "videos"
      BY <1>6 DEF SearchMarketingVideos, Uses
    <2>3. Requested("library", ids, status, start, TRUE)
      BY Selected DEF Requested, QueryNames
    <2>4. ComparedWay("library", "library", "library", status, start, TRUE)
      BY ComparedWays
    <2>5. Serves(tool', "library", ids, start, TRUE)
      BY <2>2, ToolServes
    <2> QED BY <2>1, <2>3, <2>4, <2>5, ComparedAsks
  <1>7. CASE SearchMarketingCreatorMaterials
    <2>1. PICK title \in {"authorizations", "homepage"}, status \in {"on", "ALL"}, start \in 1..2 :
             Ask(title, title, "pages", Ids, status, start, TRUE)
      BY <1>7 DEF SearchMarketingCreatorMaterials
    <2>2. tool' = "creator materials"
      BY <1>7 DEF SearchMarketingCreatorMaterials, Uses
    <2>3. Requested(title, Ids, status, start, TRUE)
      <3>1. title \in QueryNames
        BY DEF QueryNames
      <3> QED BY <3>1, Selected DEF Requested
    <2>4. ComparedWay(title, title, "pages", status, start, TRUE)
      BY ComparedWays
    <2>5. Serves(tool', title, Ids, start, TRUE)
      BY <2>2, ToolServes
    <2> QED BY <2>1, <2>3, <2>4, <2>5, ComparedAsks
  <1>8. CASE ReportMarketingPlans
    <2>1. Ask("project plans", "project schema", "pages", Ids, "ALL", 1, FALSE)
      BY <1>8 DEF ReportMarketingPlans, Plans
    <2>2. tool' = "project report"
      BY <1>8 DEF ReportMarketingPlans, Uses
    <2>3. Requested("project plans", Ids, "ALL", 1, FALSE)
      BY Selected DEF Requested, QueryNames
    <2>4. ComparedWay("project plans", "project schema", "pages", "ALL", 1, FALSE)
      BY ComparedWays
    <2>5. Serves(tool', "project schema", Ids, 1, FALSE)
      BY <2>2, ToolServes
    <2> QED BY <2>1, <2>3, <2>4, <2>5, ComparedAsks
  <1>9. CASE ReportMarketingMaterials
    <2>1. PICK ids \in Selections, status \in {"on", "ALL"} : Ask("unit materials", "promotions", "pages", ids, status, 1, FALSE)
      BY <1>9 DEF ReportMarketingMaterials
    <2>2. tool' = "material report"
      BY <1>9 DEF ReportMarketingMaterials, Uses
    <2>3. Requested("unit materials", ids, status, 1, FALSE)
      BY Selected DEF Requested, QueryNames
    <2>4. ComparedWay("unit materials", "promotions", "pages", status, 1, FALSE)
      BY ComparedWays
    <2>5. Serves(tool', "promotions", ids, 1, FALSE)
      BY <2>2, ToolServes
    <2> QED BY <2>1, <2>3, <2>4, <2>5, ComparedAsks
  <1> QED BY <1>1, <1>2, <1>3, <1>4, <1>5, <1>6, <1>7, <1>8, <1>9 DEF UseTool

-----------------------------------------------------------------------------
(* The invariant                                                           *)

(* Nothing is asked at first, and the lists have no row twice.             *)
LEMMA QueryInit == ToolsInit => QueryInv
  <1> SUFFICES ASSUME ToolsInit PROVE QuerySettled
    BY DEF QueryInv
  <1>1. server \in [main : Orders, side : Orders]
    BY DEF ToolsInit, QueriesInit
  <1>2. ASSUME NEW rows \in Orders PROVE Unique(rows)
    <2>1. PICK n \in 0..Cardinality(Ids) : rows \in [1..n -> Ids] /\ IsInjective(rows)
      BY DEF Orders
    <2>2. n \in Nat
      BY QueriesAssumption, FS_CardinalityType
    <2> QED BY <2>1, <2>2 DEF Unique
  <1> QED BY <1>1, <1>2 DEF ToolsInit, QueriesInit, QuerySettled, Listed

(* Each step keeps the invariant.                                          *)
LEMMA QueryNext == QueryInv /\ [ToolsNext]_toolVars => QueryInv'
  <1> SUFFICES ASSUME QueryInv, [ToolsNext]_toolVars, steady' PROVE QuerySettled'
    BY DEF QueryInv
  <1>1. steady => QuerySettled
    BY DEF QueryInv
  <1>2. CASE UNCHANGED toolVars
    BY <1>1, <1>2, Standing DEF toolVars, queryVars
  <1>3. CASE UseTool
    <2>1. steady' = steady
      BY <1>3 DEF UseTool, SearchQianchuanProducts, ListQianchuanPlans, GetQianchuanPlan, ReportQianchuanAccount,
                  ReportQianchuanPlans, SearchMarketingVideos, SearchMarketingCreatorMaterials, ReportMarketingPlans,
                  ReportMarketingMaterials, QueryProducts, ListPlans, ShowPlan, QianchuanAggregate, PlanReport, Plans,
                  AskAll, Whole, Ask
    <2> QED BY <1>1, <1>3, <2>1, ToolSettles
  <1>4. CASE PresentationFails
    <2>1. query.pc = "answered" /\ query' = Refuse(query) /\ UNCHANGED <<fact, server, tool>> /\ QuerySettled
      BY <1>1, <1>4 DEF PresentationFails
    <2>2. DOMAIN query = QueryFields
      BY <2>1 DEF QuerySettled, Settles, Unasked
    <2> QED BY <2>1, <2>2, Refusing
  <1>5. CASE Start /\ tool' = tool
    <2>1. steady' = steady
      BY <1>5 DEF Start, QueryProjects, QueryPromotions, QueryDPA, QueryEvents, QueryDeepBids, QueryGoals, Diagnostic,
                  ResolveCities, QueryProducts, ListPlans, ListPlanMaterials, ShowPlan, ListAuthorizedCreators,
                  QueryCreatorVideos, MaterialReport, PlanReport, QianchuanCustom, QianchuanRoom, QianchuanAuthor,
                  QianchuanSchema, QianchuanAggregate, Schema, Plans, Materials, Custom, AdVideos, AdImages, Covers,
                  QueryVideos, QueryImages, QueryDPAProducts, QueryCreatorAuthorizations, QueryCreatorHomepage,
                  AskAll, Whole, Ask
    <2> QED BY <1>1, <1>5, <2>1, StartSettles
  <1>6. CASE (Receive \/ FetchFails \/ SchemaMisses) /\ tool' = tool
    <2>1. query.pc = "walking" /\ fact' = fact /\ server' = server /\ QuerySettled
      BY <1>1, <1>6 DEF Receive, FetchFails, SchemaMisses
    <2>2. Walking(query, tool) /\ Listed /\ fact \in Attributes
      BY <2>1 DEF QuerySettled, Settles, Unasked
    <2>3. DOMAIN query = QueryFields /\ KeptSoFar(query)
      BY <2>2 DEF Walking
    <2>4. Settles(Settled(Walk(query, NextPage)), tool) /\ Settles(Refuse(query), tool)
      BY <2>1, <2>2, <2>3, ReceiveSettles, Refused
    <2>5. Settles(query', tool')
      BY <1>6, <2>4 DEF Receive, FetchFails, SchemaMisses
    <2>6. query'.pc # "idle"
      BY <2>5 DEF Settles
    <2> QED BY <2>1, <2>5, <2>6, Settling
  <1>7. CASE ReceiveWrong
    BY <1>7 DEF ReceiveWrong
  <1>8. CASE (\E list \in {"main", "side"} : Change(list)) /\ tool' = tool
    <2>1. PICK list \in {"main", "side"} : Change(list)
      BY <1>8
    <2>2. PICK k \in 1..(Len(server[list]) - 1) :
             server' = [server EXCEPT ![list][k] = server[list][k + 1], ![list][k + 1] = server[list][k]]
      BY <2>1 DEF Change
    <2>3. query.pc = "walking" /\ UNCHANGED <<fact, query, tool>> /\ QuerySettled
      BY <1>1, <1>8, <2>1 DEF Change
    <2> QED BY <2>2, <2>3, Swapping
  <1> QED BY <1>2, <1>3, <1>4, <1>5, <1>6, <1>7, <1>8 DEF ToolsNext, QueriesNext

(* A query that compares keys and totals answers with every row of its     *)
(* list once or refuses, although rows changed places between its pages:   *)
(* CollectPages, collectVideos and the authorized creators' walk, for any  *)
(* lists, page size and limit of pages.                                    *)
THEOREM CompleteAnswers == ToolsInit /\ [][ToolsNext]_toolVars => []CompleteOrRefused
  <1>1. QueryInv => CompleteOrRefused
    BY SettledHolds DEF QueryInv, CompleteOrRefused, Answered
  <1> QED BY <1>1, QueryInit, QueryNext, PTL

(* A report of joined walks covers the plans or materials it was asked for *)
(* and shows those with the highest spend, videos are listed for the only  *)
(* creator that matches, and a tool that cuts its answer says so.          *)
THEOREM TrueAnswers == ToolsInit /\ [][ToolsNext]_toolVars => []AnswersAreTrue
  <1>1. QueryInv => AnswersAreTrue
    BY SettledHolds DEF QueryInv, AnswersAreTrue, ReportIsTrue, CreatorIsTheOnlyMatch, ToolsTellWhatIsLeftOut, Answered
  <1> QED BY <1>1, QueryInit, QueryNext, PTL

=============================================================================
