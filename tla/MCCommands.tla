------------------------------ MODULE MCCommands ------------------------------
(* Instances for TLC of the parts that share no state: in a behaviour only *)
(* one of them runs.                                                       *)
EXTENDS QueryTools, AccountReport, PlanSettings, WorkVerification, ReadPool, AuthorizationStore, TLC

Row(spend, status, wanted, products) ==
    [spend |-> spend, status |-> status, wanted |-> wanted, products |-> products]
SomeAttributes ==
    {<<Row(0, "on", TRUE, {1, 2}), Row(2, "off", FALSE, {1}), Row(1, "on", FALSE, {1, 2})>>,
     <<Row(1, "on", TRUE, {1}), Row(0, "on", FALSE, {1, 2}), Row(1, "off", TRUE, {2})>>}
SomeSelections == {{1, 3}}
SomeSpend == [a \in Accounts |-> a]

CONSTANTS k1, k2, n1, n2
SomeOwners == [w \in Works |-> IF w = 1 THEN k1 ELSE k2]
SomeProducts == <<{1}>>
SomeNames == (k1 :> n1) @@ (k2 :> n2)
SomeHints == {[creator |-> k1, name |-> n1], [creator |-> k2, name |-> n2]}

SomePlans == [r \in Readers |-> IF r = 3 THEN 2 ELSE 1]

Interchangeable == Permutations(SettingCommands) \cup Permutations(Batches)
VARIABLE part
vars == <<part, toolVars, reportVars, settingVars, verificationVars, poolVars, storeVars>>

Init ==
    /\ part \in {"query", "report", "settings", "works", "pool", "store"}
    /\ ToolsInit /\ ReportInit /\ SettingsInit /\ VerificationInit /\ ReadPoolInit /\ StoreInit
    /\ Len(server.main) # 1 /\ server.main = Ascending(ToSet(server.main))
    /\ Len(server.side) >= 2 /\ server.side = Ascending(ToSet(server.side))
    /\ part # "query" => server.main = << >> /\ server.side = <<1, 2, 3>> /\ fact[1].spend = 0
    /\ part # "settings" => channel = "marketing"
    /\ usable = Creators
Next ==
    \/ /\ part = "query" /\ ToolsNext
       /\ UNCHANGED <<part, reportVars, settingVars, verificationVars, poolVars, storeVars>>
    \/ /\ part = "report" /\ ReportNext
       /\ UNCHANGED <<part, toolVars, settingVars, verificationVars, poolVars, storeVars>>
    \/ /\ part = "settings" /\ SettingsNext
       /\ UNCHANGED <<part, toolVars, reportVars, verificationVars, poolVars, storeVars>>
    \/ /\ part = "works" /\ VerificationNext
       /\ UNCHANGED <<part, toolVars, reportVars, settingVars, poolVars, storeVars>>
    \/ /\ part = "pool" /\ ReadPoolNext
       /\ UNCHANGED <<part, toolVars, reportVars, settingVars, verificationVars, storeVars>>
    \/ /\ part = "store" /\ StoreNext
       /\ UNCHANGED <<part, toolVars, reportVars, settingVars, verificationVars, poolVars>>
Spec == Init /\ [][Next]_vars
=============================================================================
